---- MODULE Spec2Model ----
(***************************************************************************)
(* Model of the CAGED dashboard's data pipeline: DataProcessor             *)
(* (src/src/data/data_processor.py) and the chart dispatch of              *)
(* ExploratoryPage (src/src/pages/exploratory.py).                         *)
(*                                                                         *)
(* A DataFrame is a record [index, cols]: the row labels and a function     *)
(* from column names to columns [dtype, v, cats], v holding one cell per   *)
(* row.  A cell is <<>> (NaN / None / NaT)                                 *)
(* or <<x>>.  float64 and int64 values are exact rationals [num, den];     *)
(* object and category values are strings; datetime64 values are records   *)
(* [y, m, d].  A raised Python exception is an outcome [exc, df] with      *)
(* exc # "none".                                                           *)
(***************************************************************************)
EXTENDS Integers, Sequences, FiniteSets, TLC

VARIABLES df, op, arg, ret, acc, step, session, shown

vars == <<df, op, arg, ret, acc, step, session, shown>>

(* Largest number of rows of a table handed to process_data. *)
MaxRows == 3

(* Largest number of rows of a table handed to filter_data. *)
MaxFilterRows == 2

(* Largest number of rows of a table handed to aggregate_by_period. *)
MaxAggRows == 3

(* Largest number of rows of a table handed to a plotting routine. *)
MaxPlotRows == 3

(* Largest number of rows of a table whose object identity is followed. *)
MaxHeapRows == 2

-----------------------------------------------------------------------------
(* Numbers *)

Abs(x) == IF x < 0 THEN -x ELSE x

RECURSIVE GCD(_, _)
GCD(a, b) == IF b = 0 THEN a ELSE GCD(b, a % b)

Rat(n, d) ==
    LET g == GCD(Abs(n), d)
    IN  [num |-> n \div g, den |-> d \div g]

IntR(i) == [num |-> i, den |-> 1]

RLt(a, b) == a.num * b.den < b.num * a.den
RLe(a, b) == a.num * b.den <= b.num * a.den
RAdd(a, b) == Rat(a.num * b.den + b.num * a.den, a.den * b.den)
RDivInt(a, k) == Rat(a.num, a.den * k)
RSub(a, b) == Rat(a.num * b.den - b.num * a.den, a.den * b.den)
RMul(a, b) == Rat(a.num * b.num, a.den * b.den)
(* a / b for b > 0 *)
RDiv(a, b) == Rat(a.num * b.den, a.den * b.num)

-----------------------------------------------------------------------------
(* Cells, columns, frames *)

NA == <<>>
Some(x) == <<x>>
isnull(c) == c = NA
notnull(c) == c # NA

Column(dtype, v, cats) == [dtype |-> dtype, v |-> v, cats |-> cats]

(* the default index of a table of n rows: 0 .. n-1 *)
RangeIndex(n) == [i \in 1..n |-> i - 1]

EmptyFrame == [index |-> RangeIndex(0), cols |-> [c \in {} |-> NA]]

(* len(df) *)
len(d) == Len(d.index)

columns(d) == DOMAIN d.cols

(* DataFrame.empty: no rows or no columns *)
empty(d) == len(d) = 0 \/ columns(d) = {}

(* d[name] = column, replacing or adding *)
SetColumn(d, name, col) ==
    [d EXCEPT !.cols = [c \in columns(d) \cup {name} |->
                            IF c = name THEN col ELSE d.cols[c]]]

NumericDtypes == {"int64", "float64"}
CategoricalDtypes == {"object", "category"}

select_dtypes(d, include) == {c \in columns(d) : d.cols[c].dtype \in include}

Present(col) == {i \in DOMAIN col.v : notnull(col.v[i])}

isnull_sum(col) == Cardinality({i \in DOMAIN col.v : isnull(col.v[i])})

(* the value assigned to the whole column instead of filled in *)
fillna_every_entry(col, value) == [col EXCEPT !.v = [i \in DOMAIN col.v |-> value]]

fillna(col, value) ==
    [col EXCEPT !.v = [i \in DOMAIN col.v |->
                          IF isnull(col.v[i]) THEN value ELSE col.v[i]]]

-----------------------------------------------------------------------------
(* What a run of the exploratory page leaves behind: the entry           *)
(* 'caged_data' of st.session_state and what the run put on the screen.  *)

(* 'caged_data' not in st.session_state *)
Absent == <<>>

Message(level, text, args) == [level |-> level, text |-> text, args |-> args]

(* a screen on which nothing was written, no plotting routine called, no *)
(* figure shown and no multiselect read                                  *)
Blank == [messages |-> <<>>, calls |-> <<>>, figures |-> <<>>, selected |-> <<>>]

-----------------------------------------------------------------------------
(* Outcomes of a call *)

Ok(d) == [exc |-> "none", df |-> d]
Raise(e) == [exc |-> e, df |-> EmptyFrame]
NoCall == [exc |-> "nocall", df |-> EmptyFrame]
IsOk(r) == r.exc = "none"

-----------------------------------------------------------------------------
(* pandas reductions used by the processor *)

(* Python's ordering of the strings that occur in object columns. *)
StrOrder ==
    << "1", "2", "3",
       "5ª Completo Fundamental", "6ª a 9ª Fundamental",
       "Admissão", "Analfabeto", "Até 5ª Incompleto", "Desligamento",
       "Feminino", "Fundamental Completo", "MG", "Masculino",
       "Médio Completo", "Médio Incompleto", "RJ", "SP",
       "Superior Completo", "Superior Incompleto", "Transferência" >>

SeqIndex(seq, x) == CHOOSE i \in DOMAIN seq : seq[i] = x

(* sort key of a present categorical value: category code for a category *)
(* column, string order for an object column                             *)
CatKey(col, x) ==
    IF col.dtype = "category" THEN SeqIndex(col.cats, x) ELSE SeqIndex(StrOrder, x)

(* a median that takes the lower of the two middle values *)
median_lower(col) ==
    LET P == Present(col)
        m == Cardinality(P)
        val(i) == col.v[i][1]
        Before(j, i) == RLt(val(j), val(i)) \/ (val(j) = val(i) /\ j < i)
        rank(i) == Cardinality({j \in P : Before(j, i)}) + 1
        sorted(k) == val(CHOOSE i \in P : rank(i) = k)
    IN  IF m = 0 THEN NA ELSE Some(sorted((m + 1) \div 2))

(* Series.median(): NaN skipped; NA when nothing is present *)
median(col) ==
    LET P == Present(col)
        m == Cardinality(P)
        val(i) == col.v[i][1]
        Before(j, i) == RLt(val(j), val(i)) \/ (val(j) = val(i) /\ j < i)
        rank(i) == Cardinality({j \in P : Before(j, i)}) + 1
        sorted(k) == val(CHOOSE i \in P : rank(i) = k)
    IN  IF m = 0 THEN NA
        ELSE IF m % 2 = 1 THEN Some(sorted((m + 1) \div 2))
        ELSE Some(RDivInt(RAdd(sorted(m \div 2), sorted(m \div 2 + 1)), 2))

(* Series.mode(): the most frequent present values, in ascending order   *)
mode(col) ==
    LET P == Present(col)
        vals == {col.v[i][1] : i \in P}
        count(x) == Cardinality({i \in P : col.v[i][1] = x})
        top == {x \in vals : \A y \in vals : count(y) <= count(x)}
        rank(x) == Cardinality({y \in top : CatKey(col, y) < CatKey(col, x)}) + 1
    IN  [k \in 1..Cardinality(top) |-> CHOOSE x \in top : rank(x) = k]

-----------------------------------------------------------------------------
(* DataProcessor._handle_missing_values *)

NumericToFill(d) ==
    {c \in select_dtypes(d, NumericDtypes) : isnull_sum(d.cols[c]) > 0}

CategoricalToFill(d) ==
    {c \in select_dtypes(d, CategoricalDtypes) : isnull_sum(d.cols[c]) > 0}

(* a fill that forgets the last missing entry *)
FillNumericSkipsLast(col) ==
    LET nulls == {i \in DOMAIN col.v : isnull(col.v[i])}
        last == CHOOSE i \in nulls : \A j \in nulls : j <= i
    IN  [col EXCEPT !.v = [i \in DOMAIN col.v |->
                              IF isnull(col.v[i]) /\ i # last THEN median(col) ELSE col.v[i]]]

(* fillna(median()): a NaN median leaves the column as it is *)
FillNumeric(col) == fillna(col, median(col))

(* fillna(mode()[0]) *)
FillCategorical(col) == fillna(col, Some(mode(col)[1]))

_handle_missing_values(d) ==
    IF \E c \in CategoricalToFill(d) : Len(mode(d.cols[c])) = 0
    THEN Raise("KeyError")
    ELSE Ok([d EXCEPT !.cols = [c \in columns(d) |->
                IF c \in NumericToFill(d) THEN FillNumeric(d.cols[c])
                ELSE IF c \in CategoricalToFill(d) THEN FillCategorical(d.cols[c])
                ELSE d.cols[c]]])

-----------------------------------------------------------------------------
(* DataProcessor.__init__: the lookup tables *)

sexo_mapping == ("1" :> "Masculino" @@ "2" :> "Feminino")

(* the education labels with the two highest levels exchanged *)
grau_instrucao_mapping_swapped ==
    (1 :> "Analfabeto" @@ 2 :> "Até 5ª Incompleto" @@
     3 :> "5ª Completo Fundamental" @@ 4 :> "6ª a 9ª Fundamental" @@
     5 :> "Fundamental Completo" @@ 6 :> "Médio Incompleto" @@
     7 :> "Médio Completo" @@ 8 :> "Superior Completo" @@
     9 :> "Superior Incompleto")

grau_instrucao_mapping ==
    (1 :> "Analfabeto" @@ 2 :> "Até 5ª Incompleto" @@
     3 :> "5ª Completo Fundamental" @@ 4 :> "6ª a 9ª Fundamental" @@
     5 :> "Fundamental Completo" @@ 6 :> "Médio Incompleto" @@
     7 :> "Médio Completo" @@ 8 :> "Superior Incompleto" @@
     9 :> "Superior Completo")

tipo_movimentacao_mapping ==
    (1 :> "Admissão" @@ 2 :> "Desligamento" @@ 3 :> "Transferência")

(* Series.replace(dict): a value that is no key is kept *)
map_str_keeping(col, mapping) ==
    Column("object",
           [i \in DOMAIN col.v |->
               IF notnull(col.v[i]) /\ col.v[i][1] \in DOMAIN mapping
               THEN Some(mapping[col.v[i][1]]) ELSE col.v[i]],
           <<>>)

(* Series.map(dict) over string keys: a value that is no key gives NaN *)
map_str(col, mapping) ==
    Column("object",
           [i \in DOMAIN col.v |->
               IF notnull(col.v[i]) /\ col.v[i][1] \in DOMAIN mapping
               THEN Some(mapping[col.v[i][1]]) ELSE NA],
           <<>>)

(* a lookup that truncates the value to an integer key first *)
map_int_truncating(col, mapping) ==
    Column("object",
           [i \in DOMAIN col.v |->
               IF notnull(col.v[i])
                  /\ (col.v[i][1].num \div col.v[i][1].den) \in DOMAIN mapping
               THEN Some(mapping[col.v[i][1].num \div col.v[i][1].den]) ELSE NA],
           <<>>)

(* Series.map(dict) over integer keys: 4.0 finds key 4, 4.5 finds none *)
map_int(col, mapping) ==
    Column("object",
           [i \in DOMAIN col.v |->
               IF notnull(col.v[i]) /\ col.v[i][1].den = 1
                  /\ col.v[i][1].num \in DOMAIN mapping
               THEN Some(mapping[col.v[i][1].num]) ELSE NA],
           <<>>)

(* DataProcessor._decode_categorical *)
DecodeSexo(d) ==
    IF "sexo" \in columns(d)
    THEN SetColumn(d, "sexo_desc", map_str(d.cols["sexo"], sexo_mapping))
    ELSE d

DecodeGrau(d) ==
    IF "grau_instrucao" \in columns(d)
    THEN SetColumn(d, "grau_instrucao_desc",
                   map_int(d.cols["grau_instrucao"], grau_instrucao_mapping))
    ELSE d

DecodeTipo(d) ==
    IF "tipo_movimentacao" \in columns(d)
    THEN SetColumn(d, "tipo_movimentacao_desc",
                   map_int(d.cols["tipo_movimentacao"], tipo_movimentacao_mapping))
    ELSE d

_decode_categorical(d) == DecodeTipo(DecodeGrau(DecodeSexo(d)))


-----------------------------------------------------------------------------
(* DataProcessor._create_derived_fields *)

(* Series.astype(str) of one numeric cell: an int64 prints its digits    *)
(* ("2021"), a float64 prints with a fractional part ("2021.0") and NaN  *)
(* prints "nan"                                                          *)
astype_str(dtype, c) ==
    IF isnull(c) THEN [kind |-> "nan", n |-> IntR(0)]
    ELSE IF dtype = "int64" THEN [kind |-> "digits", n |-> c[1]]
    ELSE [kind |-> "decimal", n |-> c[1]]

(* whether to_datetime parses ano + '-' + mes + '-01' *)
ParsesAsDate(ytxt, mtxt) ==
    /\ ytxt.kind = "digits"
    /\ mtxt.kind = "digits"
    /\ mtxt.n.num \in 1..12

(* pd.to_datetime over the concatenated strings: any string that is no   *)
(* date raises                                                             *)
to_datetime(ano, mes) ==
    LET ytxt(i) == astype_str(ano.dtype, ano.v[i])
        mtxt(i) == astype_str(mes.dtype, mes.v[i])
    IN  IF \E i \in DOMAIN ano.v : ~ParsesAsDate(ytxt(i), mtxt(i))
        THEN Raise("ValueError")
        ELSE Ok(Column("datetime64",
                       [i \in DOMAIN ano.v |->
                           Some([y |-> ytxt(i).n.num, m |-> mtxt(i).n.num, d |-> 1])],
                       <<>>))

(* bin edges: finite, or float('inf') *)
Edge(k) == [inf |-> FALSE, r |-> IntR(k)]
Inf == [inf |-> TRUE, r |-> IntR(0)]
EdgeLe(e, x) == ~e.inf /\ RLe(e.r, x)
LtEdge(x, e) == e.inf \/ RLt(x, e.r)

idade_bins == <<Edge(0), Edge(18), Edge(25), Edge(35), Edge(45), Edge(55), Edge(65), Edge(100)>>
idade_labels == <<"<18", "18-24", "25-34", "35-44", "45-54", "55-64", "65+">>

(* bins whose last edge is finite *)
salario_bins_capped == <<Edge(0), Edge(1100), Edge(2200), Edge(3300), Edge(5000), Edge(10000), Edge(100000)>>

salario_bins == <<Edge(0), Edge(1100), Edge(2200), Edge(3300), Edge(5000), Edge(10000), Inf>>
salario_labels == <<"Até 1 SM", "1-2 SM", "2-3 SM", "3-5 SM", "5-10 SM", "10+ SM">>

(* right=True: bin k is (bins[k], bins[k+1]] *)
InBinRightClosed(x, bins, k) ==
    ~bins[k].inf /\ RLt(bins[k].r, x) /\ (bins[k + 1].inf \/ RLe(x, bins[k + 1].r))

(* right=False: bin k is [bins[k], bins[k+1]) *)
InBin(x, bins, k) == EdgeLe(bins[k], x) /\ LtEdge(x, bins[k + 1])

(* a cut that gives a value outside every bin the nearest bin *)
cut_clamped(col, bins, labels) ==
    Column("category",
           [i \in DOMAIN col.v |->
               IF isnull(col.v[i]) THEN NA
               ELSE IF \E k \in DOMAIN labels : InBin(col.v[i][1], bins, k)
               THEN Some(labels[CHOOSE k \in DOMAIN labels : InBin(col.v[i][1], bins, k)])
               ELSE IF LtEdge(col.v[i][1], bins[1]) THEN Some(labels[1])
               ELSE Some(labels[Len(labels)])],
           labels)

(* pd.cut(col, bins=bins, labels=labels, right=False): NaN and values in *)
(* no bin give NaN                                                       *)
cut(col, bins, labels) ==
    Column("category",
           [i \in DOMAIN col.v |->
               IF notnull(col.v[i]) /\ \E k \in DOMAIN labels : InBin(col.v[i][1], bins, k)
               THEN Some(labels[CHOOSE k \in DOMAIN labels : InBin(col.v[i][1], bins, k)])
               ELSE NA],
           labels)

DeriveData(d) ==
    IF "ano" \in columns(d) /\ "mes" \in columns(d)
    THEN LET t == to_datetime(d.cols["ano"], d.cols["mes"])
         IN  IF IsOk(t) THEN Ok(SetColumn(d, "data", t.df)) ELSE Raise(t.exc)
    ELSE Ok(d)

DeriveFaixaEtaria(d) ==
    IF "idade" \in columns(d)
    THEN SetColumn(d, "faixa_etaria", cut(d.cols["idade"], idade_bins, idade_labels))
    ELSE d

DeriveFaixaSalarial(d) ==
    IF "salario" \in columns(d)
    THEN SetColumn(d, "faixa_salarial", cut(d.cols["salario"], salario_bins, salario_labels))
    ELSE d

_create_derived_fields(d) ==
    LET r == DeriveData(d)
    IN  IF IsOk(r) THEN Ok(DeriveFaixaSalarial(DeriveFaixaEtaria(r.df))) ELSE r

-----------------------------------------------------------------------------
(* DataProcessor.process_data *)

(* the three steps with the imputation last *)
process_data_imputing_last(d) ==
    LET derived == _create_derived_fields(_decode_categorical(d))
    IN  IF IsOk(derived) THEN _handle_missing_values(derived.df) ELSE derived

process_data(d) ==
    LET clean == _handle_missing_values(d)
    IN  IF IsOk(clean)
        THEN _create_derived_fields(_decode_categorical(clean.df))
        ELSE clean


-----------------------------------------------------------------------------
(* Tables handed to the processor.  The columns are those of              *)
(* DataLoader._create_mock_data that the processor reads, and uf.         *)

NumericNames == {"ano", "mes", "idade", "salario", "grau_instrucao", "tipo_movimentacao"}
StringNames == {"sexo", "uf"}
RawNames == NumericNames \cup StringNames
DerivedNames == {"sexo_desc", "grau_instrucao_desc", "tipo_movimentacao_desc",
                 "data", "faixa_etaria", "faixa_salarial"}

(* values a cell of each column takes in the tables explored *)
CellValues(name) ==
    CASE name = "ano" -> {IntR(2020), IntR(2021)}
      [] name = "mes" -> {IntR(1), IntR(12)}
      [] name = "idade" -> {IntR(17), IntR(18), IntR(100)}
      [] name = "salario" -> {IntR(1099), IntR(1100)}
      [] name = "grau_instrucao" -> {IntR(4), IntR(5)}
      [] name = "tipo_movimentacao" -> {IntR(1), IntR(4)}
      [] name = "sexo" -> {"1", "2", "3"}
      [] name = "uf" -> {"SP", "RJ"}

Cells(name) == {NA} \cup {Some(x) : x \in CellValues(name)}

(* the dtype pandas infers: integers with a NaN among them are float64 *)
InferDtype(name, v) ==
    IF name \in StringNames THEN "object"
    ELSE IF \E i \in DOMAIN v : isnull(v[i]) THEN "float64"
    ELSE "int64"

RawColumn(name, v) == Column(InferDtype(name, v), v, <<>>)

Frame1(n, name, v) == [index |-> RangeIndex(n), cols |-> [c \in {name} |-> RawColumn(name, v)]]

(* one column, up to MaxRows rows *)
OneColumnFrames ==
    {Frame1(n, name, v) : <<n, name, v>> \in
        UNION {UNION {{<<n, name, v>> : v \in [1..n -> Cells(name)]}
                      : name \in RawNames} : n \in 0..MaxRows}}

(* ano and mes together *)
AnoMesRows ==
    { <<Some(IntR(2020)), Some(IntR(1))>>, <<Some(IntR(2021)), Some(IntR(12))>>,
      <<NA, Some(IntR(12))>>, <<Some(IntR(2020)), NA>> }

AnoMesFrames ==
    UNION {{[index |-> RangeIndex(n),
             cols |-> [c \in {"ano", "mes"} |->
                 IF c = "ano"
                 THEN RawColumn("ano", [i \in 1..n |-> rows[i][1]])
                 ELSE RawColumn("mes", [i \in 1..n |-> rows[i][2]])]]
            : rows \in [1..n -> AnoMesRows]}
           : n \in 1..MaxRows}

(* one complete record over any subset of the columns *)
SampleValue(name) ==
    CASE name = "ano" -> IntR(2021)
      [] name = "mes" -> IntR(1)
      [] name = "idade" -> IntR(20)
      [] name = "salario" -> IntR(1100)
      [] name = "grau_instrucao" -> IntR(1)
      [] name = "tipo_movimentacao" -> IntR(1)
      [] name = "sexo" -> "1"
      [] name = "uf" -> "SP"

SubsetFrames ==
    {[index |-> RangeIndex(1), cols |-> [c \in S |-> RawColumn(c, <<Some(SampleValue(c))>>)]]
        : S \in SUBSET RawNames}

(* one record holding any age, or a salary at and around each threshold *)
Ages == -1..101
Salaries == {IntR(-1), IntR(0), IntR(1099), Rat(2199, 2), IntR(1100), IntR(2199),
             IntR(2200), IntR(3299), IntR(3300), IntR(4999), IntR(5000),
             IntR(9999), IntR(10000), IntR(10001), IntR(1000000)}

BracketFrames ==
    {Frame1(1, "idade", <<Some(IntR(a))>>) : a \in Ages}
    \cup {[index |-> RangeIndex(1), cols |-> [c \in {"salario"} |-> Column("float64", <<Some(s)>>, <<>>)]]
            : s \in Salaries}

(* one record holding any education or movement code, known or not *)
GrauCodes == 0..10
TipoCodes == 0..4

CodeFrames ==
    {Frame1(1, "grau_instrucao", <<Some(IntR(k))>>) : k \in GrauCodes}
    \cup {Frame1(1, "tipo_movimentacao", <<Some(IntR(k))>>) : k \in TipoCodes}

RawFrames ==
    OneColumnFrames \cup AnoMesFrames \cup SubsetFrames \cup BracketFrames \cup CodeFrames

-----------------------------------------------------------------------------
(* The processor called on a loaded table, and again on its own result *)

InitProcess ==
    /\ df \in RawFrames
    /\ op = "none"
    /\ arg = <<>>
    /\ ret = NoCall
    /\ acc = NoCall
    /\ step = 0
    /\ session = Absent
    /\ shown = Blank

(* processed = process_data(df) *)
ProcessData ==
    /\ op = "none"
    /\ op' = "process_data"
    /\ ret' = process_data(df)
    /\ UNCHANGED <<session, shown, df, arg, acc, step>>

(* process_data(processed): the table now holds the derived columns *)
ProcessAgain ==
    /\ op = "process_data"
    /\ acc = NoCall
    /\ IsOk(ret)
    /\ df' = ret.df
    /\ acc' = ret
    /\ ret' = process_data(ret.df)
    /\ UNCHANGED <<session, shown, op, arg, step>>

NextProcess == ProcessData \/ ProcessAgain

SpecProcess == InitProcess /\ [][NextProcess]_vars


-----------------------------------------------------------------------------
(* DataProcessor.filter_data *)

(* A filter value: a Python list, tuple or scalar; numeric says that     *)
(* every item is an int or a float                                       *)
FilterValue(shape, numeric, items) == [shape |-> shape, numeric |-> numeric, items |-> items]

Range(seq) == {seq[i] : i \in DOMAIN seq}

(* the rows at the positions in keep, in their order, with their labels *)
Take(d, keep) ==
    LET m == Cardinality(keep)
        pos == [k \in 1..m |-> CHOOSE i \in keep : Cardinality({j \in keep : j < i}) = k - 1]
    IN  [index |-> [k \in 1..m |-> d.index[pos[k]]],
         cols |-> [c \in columns(d) |->
                      [d.cols[c] EXCEPT !.v = [k \in 1..m |-> d.cols[c].v[pos[k]]]]]]

(* a test that takes a tuple of two numbers as a range, and no list *)
IsNumericPairTupleOnly(value) ==
    /\ value.shape = "tuple"
    /\ Len(value.items) = 2
    /\ value.numeric

(* isinstance(value, (list, tuple)) and len(value) == 2 and all numbers *)
IsNumericPair(value) ==
    /\ value.shape \in {"list", "tuple"}
    /\ Len(value.items) = 2
    /\ value.numeric

(* a range that leaves out its upper end *)
RangeMaskHalfOpen(col, value) ==
    {i \in DOMAIN col.v : /\ notnull(col.v[i])
                          /\ RLe(value.items[1], col.v[i][1])
                          /\ RLt(col.v[i][1], value.items[2])}

(* (df[column] >= value[0]) & (df[column] <= value[1]); NaN compares false *)
RangeMask(col, value) ==
    {i \in DOMAIN col.v : /\ notnull(col.v[i])
                          /\ RLe(value.items[1], col.v[i][1])
                          /\ RLe(col.v[i][1], value.items[2])}

(* df[column].isin(value) *)
IsinMask(col, value) ==
    {i \in DOMAIN col.v : notnull(col.v[i]) /\ col.v[i][1] \in Range(value.items)}

(* df[column] == value *)
EqMask(col, value) == {i \in DOMAIN col.v : col.v[i] = Some(value.items[1])}

(* one pass of the loop body *)
ApplyFilter(d, column, value) ==
    IF column \notin columns(d) THEN d
    ELSE IF IsNumericPair(value) THEN Take(d, RangeMask(d.cols[column], value))
    ELSE IF value.shape = "list" THEN Take(d, IsinMask(d.cols[column], value))
    ELSE Take(d, EqMask(d.cols[column], value))

(* a loop that returns after its first entry *)
FilterLoopFirstOnly(d, filters) ==
    IF filters = <<>> THEN d
    ELSE ApplyFilter(d, Head(filters).column, Head(filters).value)

(* for column, value in filters.items(): the entries in definition order *)
RECURSIVE FilterLoop(_, _)
FilterLoop(d, filters) ==
    IF filters = <<>> THEN d
    ELSE FilterLoop(ApplyFilter(d, Head(filters).column, Head(filters).value), Tail(filters))

filter_data(d, filters) == Ok(FilterLoop(d, filters))

-----------------------------------------------------------------------------
(* Tables and filter mappings handed to filter_data.  A predicate on     *)
(* salario holds numbers and a predicate on uf holds strings; municipio  *)
(* is a column the tables do not have.                                   *)

FilterRows ==
    { <<Some(IntR(1000)), Some("SP")>>, <<Some(IntR(1500)), Some("SP")>>,
      <<Some(IntR(1500)), Some("MG")>>, <<Some(IntR(2500)), Some("MG")>>,
      <<NA, Some("SP")>> }

FilterFrames ==
    UNION {{[index |-> RangeIndex(n),
             cols |-> [c \in {"salario", "uf"} |->
                 IF c = "salario"
                 THEN RawColumn("salario", [i \in 1..n |-> rows[i][1]])
                 ELSE RawColumn("uf", [i \in 1..n |-> rows[i][2]])]]
            : rows \in [1..n -> FilterRows]}
           : n \in 0..MaxFilterRows}

SalarioFilters ==
    { FilterValue("tuple", TRUE, <<IntR(1000), IntR(2000)>>),
      FilterValue("list", TRUE, <<IntR(1000), IntR(2500)>>),
      FilterValue("list", TRUE, <<IntR(2500), IntR(1000)>>),
      FilterValue("list", TRUE, <<IntR(1000), IntR(2000), IntR(2500)>>),
      FilterValue("list", TRUE, <<IntR(1500)>>),
      FilterValue("scalar", TRUE, <<IntR(1500)>>) }

UfFilters ==
    { FilterValue("list", FALSE, <<"SP", "RJ">>),
      FilterValue("list", FALSE, <<"SP">>),
      FilterValue("scalar", FALSE, <<"SP">>) }

MunicipioFilters == { FilterValue("scalar", FALSE, <<"3550308">>) }

FilterEntries ==
    {[column |-> "salario", value |-> x] : x \in SalarioFilters}
    \cup {[column |-> "uf", value |-> x] : x \in UfFilters}
    \cup {[column |-> "municipio", value |-> x] : x \in MunicipioFilters}

(* a dict: at most one entry per key, in any definition order *)
FilterMappings ==
    {f \in UNION {[1..k -> FilterEntries] : k \in 0..3} :
        \A i, j \in DOMAIN f : i # j => f[i].column # f[j].column}

InitFilter ==
    /\ df \in FilterFrames
    /\ arg \in FilterMappings
    /\ op = "none"
    /\ ret = NoCall
    /\ acc = Ok(df)
    /\ step = 0
    /\ session = Absent
    /\ shown = Blank

(* filter_data(df, filters) *)
FilterData ==
    /\ op = "none"
    /\ op' = "filter_data"
    /\ ret' = filter_data(df, arg)
    /\ UNCHANGED <<session, shown, df, arg, acc, step>>

(* the same predicates one call at a time, each on the previous result *)
FilterOneByOne ==
    /\ op = "filter_data"
    /\ step < Len(arg)
    /\ IsOk(acc)
    /\ acc' = filter_data(acc.df, <<arg[step + 1]>>)
    /\ step' = step + 1
    /\ UNCHANGED <<session, shown, df, op, arg, ret>>

NextFilter == FilterData \/ FilterOneByOne

SpecFilter == InitFilter /\ [][NextFilter]_vars

-----------------------------------------------------------------------------
(* DataProcessor.aggregate_by_period *)

(* [col for col in names if col in df.columns] *)
RECURSIVE ValidNames(_, _)
ValidNames(d, names) ==
    IF names = <<>> THEN <<>>
    ELSE IF Head(names) \in columns(d)
         THEN <<Head(names)>> \o ValidNames(d, Tail(names))
         ELSE ValidNames(d, Tail(names))

Statistics == <<"mean", "median", "min", "max", "count">>

(* '_'.join(col) for the metric columns of the tables explored *)
JoinName(metric, stat) ==
    CASE metric = "salario" /\ stat = "mean" -> "salario_mean"
      [] metric = "salario" /\ stat = "median" -> "salario_median"
      [] metric = "salario" /\ stat = "min" -> "salario_min"
      [] metric = "salario" /\ stat = "max" -> "salario_max"
      [] metric = "salario" /\ stat = "count" -> "salario_count"
      [] metric = "idade" /\ stat = "mean" -> "idade_mean"
      [] metric = "idade" /\ stat = "median" -> "idade_median"
      [] metric = "idade" /\ stat = "min" -> "idade_min"
      [] metric = "idade" /\ stat = "max" -> "idade_max"
      [] metric = "idade" /\ stat = "count" -> "idade_count"

(* the key of row i: its values in the grouping columns *)
KeyOf(d, by, i) == [j \in DOMAIN by |-> d.cols[by[j]].v[i]]

(* groupby drops the rows that have a NaN in a grouping column *)
KeyedRows(d, by) == {i \in 1..len(d) : \A j \in DOMAIN by : notnull(d.cols[by[j]].v[i])}

(* order of two present values of one column *)
ValueLt(col, x, y) ==
    IF col.dtype \in NumericDtypes THEN RLt(x, y) ELSE CatKey(col, x) < CatKey(col, y)

(* groupby sorts the groups by key, column by column *)
KeyLt(d, by, a, b) ==
    \E j \in DOMAIN by :
        /\ \A h \in 1..(j - 1) : a[h] = b[h]
        /\ ValueLt(d.cols[by[j]], a[j][1], b[j][1])

(* the distinct keys in ascending order *)
GroupKeys(d, by) ==
    LET K == {KeyOf(d, by, i) : i \in KeyedRows(d, by)}
        rank(a) == Cardinality({b \in K : KeyLt(d, by, b, a)}) + 1
    IN  [g \in 1..Cardinality(K) |-> CHOOSE a \in K : rank(a) = g]

(* the metric column restricted to the rows of one group *)
GroupColumn(d, by, key, metric) ==
    LET rows == {i \in KeyedRows(d, by) : KeyOf(d, by, i) = key}
    IN  Take(d, rows).cols[metric]

RECURSIVE SumCells(_, _)
SumCells(col, I) ==
    IF I = {} THEN IntR(0)
    ELSE LET i == CHOOSE i \in I : TRUE
         IN  RAdd(col.v[i][1], SumCells(col, I \ {i}))

mean_over_rows(col) ==
    IF Present(col) = {} THEN NA
    ELSE Some(RDivInt(SumCells(col, Present(col)), Len(col.v)))

(* mean of the present values *)
mean(col) ==
    IF Present(col) = {} THEN NA
    ELSE Some(RDivInt(SumCells(col, Present(col)), Cardinality(Present(col))))

min(col) ==
    IF Present(col) = {} THEN NA
    ELSE col.v[CHOOSE i \in Present(col) :
                   \A j \in Present(col) : RLe(col.v[i][1], col.v[j][1])]

max(col) ==
    IF Present(col) = {} THEN NA
    ELSE col.v[CHOOSE i \in Present(col) :
                   \A j \in Present(col) : RLe(col.v[j][1], col.v[i][1])]

(* count of the present values *)
count(col) == Some(IntR(Cardinality(Present(col))))

Aggregate(col, stat) ==
    CASE stat = "mean" -> mean(col)
      [] stat = "median" -> median(col)
      [] stat = "min" -> min(col)
      [] stat = "max" -> max(col)
      [] stat = "count" -> count(col)

StatDtype(col, stat) ==
    CASE stat \in {"mean", "median"} -> "float64"
      [] stat \in {"min", "max"} -> col.dtype
      [] stat = "count" -> "int64"

(* df.groupby(by).agg({metric: [...]}), the column names joined and the  *)
(* grouping columns put back as plain columns by reset_index()           *)
GroupbyAgg(d, by, metrics) ==
    LET keys == GroupKeys(d, by)
        G == DOMAIN keys
        out ==
            {by[j] : j \in DOMAIN by}
            \cup {JoinName(metrics[m], Statistics[s]) :
                    <<m, s>> \in (DOMAIN metrics) \X (DOMAIN Statistics)}
        KeyColumn(j) ==
            [d.cols[by[j]] EXCEPT !.v = [g \in G |-> keys[g][j]]]
        StatColumn(m, s) ==
            Column(StatDtype(d.cols[metrics[m]], Statistics[s]),
                   [g \in G |-> Aggregate(GroupColumn(d, by, keys[g], metrics[m]),
                                          Statistics[s])],
                   <<>>)
    IN  [index |-> RangeIndex(Len(keys)),
         cols |-> [c \in out |->
            IF \E j \in DOMAIN by : by[j] = c
            THEN KeyColumn(CHOOSE j \in DOMAIN by : by[j] = c)
            ELSE LET ms == CHOOSE ms \in (DOMAIN metrics) \X (DOMAIN Statistics) :
                              JoinName(metrics[ms[1]], Statistics[ms[2]]) = c
                 IN  StatColumn(ms[1], ms[2])]]

aggregate_by_period_unchecked(d, group_by, metrics) ==
    IF \E j \in DOMAIN group_by : group_by[j] \notin columns(d) THEN Raise("KeyError")
    ELSE IF \E j \in DOMAIN metrics : metrics[j] \notin columns(d) THEN Raise("KeyError")
    ELSE IF group_by = <<>> \/ metrics = <<>> THEN Ok(EmptyFrame)
    ELSE Ok(GroupbyAgg(d, group_by, metrics))

aggregate_by_period(d, group_by, metrics) ==
    LET valid_group_by == ValidNames(d, group_by)
        valid_metrics == ValidNames(d, metrics)
    IN  IF valid_group_by = <<>> \/ valid_metrics = <<>>
        THEN Ok(EmptyFrame)
        ELSE Ok(GroupbyAgg(d, valid_group_by, valid_metrics))

-----------------------------------------------------------------------------
(* Tables and arguments handed to aggregate_by_period.  The grouping     *)
(* columns are ano (numeric) and uf (object), the metric columns salario *)
(* and idade; mes and renda are columns the tables do not have.          *)

AggRows ==
    { <<Some(IntR(2021)), Some("SP"), Some(IntR(1000)), Some(IntR(20))>>,
      <<Some(IntR(2021)), Some("SP"), Some(IntR(3000)), NA>>,
      <<Some(IntR(2022)), Some("SP"), Some(IntR(500)), Some(IntR(31))>>,
      <<Some(IntR(2021)), Some("RJ"), NA, Some(IntR(40))>>,
      <<NA, Some("RJ"), Some(IntR(500)), Some(IntR(20))>> }

AggNames == <<"ano", "uf", "salario", "idade">>

AggFrames ==
    UNION {{[index |-> RangeIndex(n),
             cols |-> [c \in Range(AggNames) |->
                 RawColumn(c, [i \in 1..n |-> rows[i][SeqIndex(AggNames, c)]])]]
            : rows \in [1..n -> AggRows]}
           : n \in 0..MaxAggRows}

GroupByLists ==
    { <<>>, <<"ano">>, <<"uf">>, <<"ano", "uf">>, <<"uf", "ano">>,
      <<"ano", "mes">>, <<"mes">> }

MetricLists ==
    { <<>>, <<"salario">>, <<"renda">>, <<"salario", "renda">>, <<"salario", "idade">> }

InitAggregate ==
    /\ df \in AggFrames
    /\ arg \in [group_by : GroupByLists, metrics : MetricLists]
    /\ op = "none"
    /\ ret = NoCall
    /\ acc = NoCall
    /\ step = 0
    /\ session = Absent
    /\ shown = Blank

(* aggregate_by_period(df, group_by, metrics) *)
AggregateByPeriod ==
    /\ op = "none"
    /\ op' = "aggregate_by_period"
    /\ ret' = aggregate_by_period(df, arg.group_by, arg.metrics)
    /\ UNCHANGED <<session, shown, df, arg, acc, step>>

NextAggregate == AggregateByPeriod

SpecAggregate == InitAggregate /\ [][NextAggregate]_vars

-----------------------------------------------------------------------------
(* PlotGenerator.  A figure is the request handed to plotly: the kind of *)
(* trace, the frame it draws from, the columns bound to its roles, its   *)
(* title (the parts of the f-string), the axis labels, and the titles    *)
(* set by update_layout; or an empty go.Figure() that carries a title    *)
(* only.  An optional argument is None or Some(name).                    *)

None == NA

column_labels ==
    [col \in {"ano", "mes", "uf", "idade", "sexo", "sexo_desc", "grau_instrucao",
              "grau_instrucao_desc", "cbo_2002", "categoria", "subclasse_cnae_2",
              "salario", "tipo_movimentacao", "tipo_movimentacao_desc",
              "tipo_estabelecimento", "faixa_etaria", "faixa_salarial"} |->
        CASE col = "ano" -> "Ano"
          [] col = "mes" -> "Mês"
          [] col = "uf" -> "UF"
          [] col = "idade" -> "Idade"
          [] col \in {"sexo", "sexo_desc"} -> "Sexo"
          [] col \in {"grau_instrucao", "grau_instrucao_desc"} -> "Grau de Instrução"
          [] col = "cbo_2002" -> "Ocupação (CBO)"
          [] col = "categoria" -> "Categoria do Trabalhador"
          [] col = "subclasse_cnae_2" -> "Setor Econômico (CNAE)"
          [] col = "salario" -> "Salário"
          [] col \in {"tipo_movimentacao", "tipo_movimentacao_desc"} -> "Tipo de Movimentação"
          [] col = "tipo_estabelecimento" -> "Tipo de Estabelecimento"
          [] col = "faixa_etaria" -> "Faixa Etária"
          [] col = "faixa_salarial" -> "Faixa Salarial"]

(* self.column_labels.get(col, col) *)
Label(col) == IF col \in DOMAIN column_labels THEN column_labels[col] ELSE col

(* bool(x) of an optional string *)
Truthy(c) == c # None /\ c[1] # ""

(* go.Figure() with fig.update_layout(title=...) *)
EmptyFigure(title) ==
    [kind |-> "empty", data |-> EmptyFrame, bind |-> <<>>, title |-> title,
     labels |-> <<>>, layout |-> <<>>]

(* the roles a px call binds: the pairs <<role, column>> whose column is *)
(* given                                                                 *)
Bind(pairs) ==
    [role \in {pairs[k][1] : k \in {k \in DOMAIN pairs : pairs[k][2] # None}} |->
        (pairs[CHOOSE k \in DOMAIN pairs : pairs[k][1] = role][2])[1]]

LabelsOf(names) == [col \in names |-> Label(col)]

Figure(kind, data, bind, title, labels, layout) ==
    [kind |-> kind, data |-> data, bind |-> bind, title |-> title,
     labels |-> labels, layout |-> layout]

(* the optional column when it is given and is a column of the table *)
IfColumn(d, c) == IF Truthy(c) /\ c[1] \in columns(d) THEN c ELSE None

create_time_series(d, y_column, x_column, group_by) ==
    IF x_column \notin columns(d) \/ y_column \notin columns(d)
    THEN Ok(EmptyFigure(<<"Dados não disponíveis para gráfico de série temporal">>))
    ELSE LET color == IfColumn(d, group_by)
         IN  Ok(Figure("line", d,
                       Bind(<< <<"x", Some(x_column)>>, <<"y", Some(y_column)>>,
                               <<"color", color>> >>),
                       <<Label(y_column), " ao longo do tempo">>,
                       LabelsOf({x_column, y_column}
                                \cup (IF color = None THEN {} ELSE {color[1]})),
                       [xaxis_title |-> Label(x_column),
                        yaxis_title |-> Label(y_column),
                        legend_title |-> IF Truthy(group_by) THEN Some(Label(group_by[1]))
                                         ELSE None]))

(* bins if bins else 30 *)
DefaultBins == 30

create_histogram(d, column, bins, group_by) ==
    IF column \notin columns(d)
    THEN Ok(EmptyFigure(<<"Dados não disponíveis para histograma">>))
    ELSE LET color == IfColumn(d, group_by)
         IN  Ok(Figure("histogram", d,
                       Bind(<< <<"x", Some(column)>>, <<"color", color>> >>),
                       <<"Distribuição de ", Label(column)>>,
                       LabelsOf({column} \cup (IF color = None THEN {} ELSE {color[1]})),
                       [xaxis_title |-> Label(column),
                        yaxis_title |-> "Frequência",
                        nbins |-> IF bins # None /\ bins[1] # 0 THEN bins[1]
                                  ELSE DefaultBins]))

create_boxplot(d, y_column, x_column) ==
    IF y_column \notin columns(d)
    THEN Ok(EmptyFigure(<<"Dados não disponíveis para boxplot">>))
    ELSE LET x == IfColumn(d, x_column)
         IN  IF x # None
             THEN Ok(Figure("box", d,
                            Bind(<< <<"x", x>>, <<"y", Some(y_column)>> >>),
                            <<"Distribuição de ", Label(y_column), " por ", Label(x[1])>>,
                            LabelsOf({x[1], y_column}), <<>>))
             ELSE Ok(Figure("box", d,
                            Bind(<< <<"y", Some(y_column)>> >>),
                            <<"Distribuição de ", Label(y_column)>>,
                            LabelsOf({y_column}), <<>>))

(* a scatter plot that colours and sizes by whatever names are given *)
create_scatter_plot_unchecked(d, x_column, y_column, color_by, size_by) ==
    IF x_column \notin columns(d) \/ y_column \notin columns(d)
    THEN Ok(EmptyFigure(<<"Dados não disponíveis para gráfico de dispersão">>))
    ELSE LET color == IF Truthy(color_by) THEN color_by ELSE None
             size == IF Truthy(size_by) THEN size_by ELSE None
         IN  Ok(Figure("scatter", d,
                       Bind(<< <<"x", Some(x_column)>>, <<"y", Some(y_column)>>,
                               <<"color", color>>, <<"size", size>> >>),
                       <<Label(y_column), " vs ", Label(x_column)>>,
                       LabelsOf({x_column, y_column}
                                \cup (IF color = None THEN {} ELSE {color[1]})
                                \cup (IF size = None THEN {} ELSE {size[1]})),
                       <<>>))

create_scatter_plot(d, x_column, y_column, color_by, size_by) ==
    IF x_column \notin columns(d) \/ y_column \notin columns(d)
    THEN Ok(EmptyFigure(<<"Dados não disponíveis para gráfico de dispersão">>))
    ELSE LET color == IfColumn(d, color_by)
             size == IfColumn(d, size_by)
         IN  Ok(Figure("scatter", d,
                       Bind(<< <<"x", Some(x_column)>>, <<"y", Some(y_column)>>,
                               <<"color", color>>, <<"size", size>> >>),
                       <<Label(y_column), " vs ", Label(x_column)>>,
                       LabelsOf({x_column, y_column}
                                \cup (IF color = None THEN {} ELSE {color[1]})
                                \cup (IF size = None THEN {} ELSE {size[1]})),
                       <<>>))

(* the rows of one group *)
GroupRows(d, by, key) == {i \in KeyedRows(d, by) : KeyOf(d, by, i) = key}

(* the frame reset_index() makes of a grouped series: the keys as        *)
(* columns and the values in the column name                             *)
GroupedFrame(d, by, name, dtype, value(_)) ==
    LET keys == GroupKeys(d, by)
        G == DOMAIN keys
    IN  [index |-> RangeIndex(Len(keys)),
         cols |-> [c \in Range(by) \cup {name} |->
            IF c = name
            THEN Column(dtype, [g \in G |-> value(keys[g])], <<>>)
            ELSE LET j == CHOOSE j \in DOMAIN by : by[j] = c
                 IN  [d.cols[c] EXCEPT !.v = [g \in G |-> keys[g][j]]]]]

(* reset_index() cannot insert a key column under a name already taken *)
KeysClash(by, name) ==
    \/ name \in Range(by)
    \/ \E a, b \in DOMAIN by : a # b /\ by[a] = by[b]

(* df.groupby(by).size().reset_index(name='count') *)
GroupbySize(d, by) ==
    IF KeysClash(by, "count") THEN Raise("ValueError")
    ELSE Ok(GroupedFrame(d, by, "count", "int64",
                         LAMBDA key : Some(IntR(Cardinality(GroupRows(d, by, key))))))

(* df.groupby(by)[y].mean().reset_index() *)
GroupbyMean(d, by, y) ==
    IF d.cols[y].dtype \notin NumericDtypes THEN Raise("TypeError")
    ELSE IF KeysClash(by, y) THEN Raise("ValueError")
    ELSE Ok(GroupedFrame(d, by, y, "float64",
                         LAMBDA key : mean(GroupColumn(d, by, key, y))))

(* df.groupby(by)[y].sum().reset_index(): the sum of nothing is 0 *)
GroupbySum(d, by, y) ==
    IF KeysClash(by, y) THEN Raise("ValueError")
    ELSE Ok(GroupedFrame(d, by, y, d.cols[y].dtype,
                         LAMBDA key : LET col == GroupColumn(d, by, key, y)
                                      IN  Some(SumCells(col, Present(col)))))

(* the rows in the order given by pos *)
Reorder(d, pos) ==
    [index |-> [k \in DOMAIN pos |-> d.index[pos[k]]],
     cols |-> [c \in columns(d) |->
                  [d.cols[c] EXCEPT !.v = [k \in DOMAIN pos |-> d.cols[c].v[pos[k]]]]]]

(* chart_data.sort_values(by=name): ascending, NaN last, equal values in *)
(* their order                                                           *)
sort_values(d, name) ==
    LET col == d.cols[name]
        Before(j, i) ==
            \/ notnull(col.v[j]) /\ isnull(col.v[i])
            \/ notnull(col.v[j]) /\ notnull(col.v[i])
                 /\ ValueLt(col, col.v[j][1], col.v[i][1])
            \/ (col.v[j] = col.v[i] /\ j < i)
        rank(i) == Cardinality({j \in 1..len(d) : Before(j, i)}) + 1
    IN  Reorder(d, [k \in 1..len(d) |-> CHOOSE i \in 1..len(d) : rank(i) = k])

(* df[column].value_counts().reset_index() with the columns renamed to   *)
(* [column, 'count']: the present values by descending count, equal      *)
(* counts in order of first occurrence                                   *)
value_counts(d, column) ==
    LET col == d.cols[column]
        P == Present(col)
        vals == {col.v[i][1] : i \in P}
        n(x) == Cardinality({i \in P : col.v[i][1] = x})
        first(x) == CHOOSE i \in P : col.v[i][1] = x /\ \A j \in P : col.v[j][1] = x => i <= j
        Before(y, x) == n(y) > n(x) \/ (n(y) = n(x) /\ first(y) < first(x))
        rank(x) == Cardinality({y \in vals : Before(y, x)}) + 1
        at(k) == CHOOSE x \in vals : rank(x) = k
    IN  [index |-> RangeIndex(Cardinality(vals)),
         cols |-> [c \in {column, "count"} |->
            IF c = "count"
            THEN Column("int64", [k \in 1..Cardinality(vals) |-> Some(IntR(n(at(k))))], <<>>)
            ELSE [col EXCEPT !.v = [k \in 1..Cardinality(vals) |-> Some(at(k))]]]]

(* the px.bar call on the chart data, or the exception that making the *)
(* chart data raised                                                     *)
BarFigure(grouped, x_column, y, color, orientation, sort_by) ==
    IF ~IsOk(grouped) THEN grouped
    ELSE Ok(Figure("bar",
                   IF Truthy(sort_by) /\ sort_by[1] \in columns(grouped.df)
                   THEN sort_values(grouped.df, sort_by[1])
                   ELSE grouped.df,
                   IF orientation = "h"
                   THEN Bind(<< <<"y", Some(x_column)>>, <<"x", Some(y)>>,
                                <<"color", color>> >>)
                   ELSE Bind(<< <<"x", Some(x_column)>>, <<"y", Some(y)>>,
                                <<"color", color>> >>),
                   IF y = "count" THEN <<"Contagem de ", Label(x_column)>>
                   ELSE <<Label(y), " por ", Label(x_column)>>,
                   LabelsOf({x_column, y} \cup (IF color = None THEN {} ELSE {color[1]})),
                   IF orientation = "h" THEN [orientation |-> "h"] ELSE <<>>))

(* the columns the bars are grouped by *)
BarKeys(x_column, color) ==
    IF color # None THEN <<x_column, color[1]>> ELSE <<x_column>>

create_bar_chart(d, x_column, y_column, group_by, orientation, sort_by) ==
    IF x_column \notin columns(d)
    THEN Ok(EmptyFigure(<<"Dados não disponíveis para gráfico de barras">>))
    ELSE IF y_column # None /\ y_column[1] \notin columns(d)
    THEN Ok(EmptyFigure(<<"Coluna ", y_column[1], " não disponível para gráfico de barras">>))
    ELSE BarFigure(IF y_column = None
                   THEN GroupbySize(d, BarKeys(x_column, IfColumn(d, group_by)))
                   ELSE IF IfColumn(d, group_by) # None
                   THEN GroupbyMean(d, BarKeys(x_column, IfColumn(d, group_by)), y_column[1])
                   ELSE Ok(d),
                   x_column,
                   IF y_column = None THEN "count" ELSE y_column[1],
                   IfColumn(d, group_by), orientation, sort_by)

(* the px.pie call on the summed values, or the exception raised *)
PieFigure(chart_data, column, values) ==
    IF ~IsOk(chart_data) THEN chart_data
    ELSE Ok(Figure("pie", chart_data.df,
                   Bind(<< <<"names", Some(column)>>, <<"values", values>> >>),
                   <<"Soma de ", Label(values[1]), " por ", Label(column)>>,
                   <<>>, <<>>))

create_pie_chart(d, column, values) ==
    IF column \notin columns(d)
    THEN Ok(EmptyFigure(<<"Dados não disponíveis para gráfico de pizza">>))
    ELSE IF values # None /\ values[1] \notin columns(d)
    THEN Ok(EmptyFigure(<<"Coluna ", values[1], " não disponível para gráfico de pizza">>))
    ELSE IF values = None
    THEN Ok(Figure("pie", value_counts(d, column),
                   Bind(<< <<"names", Some(column)>>, <<"values", Some("count")>> >>),
                   <<"Distribuição de ", Label(column)>>, <<>>, <<>>))
    ELSE PieFigure(GroupbySum(d, <<column>>, values[1]), column, values)

(* the columns in the order of the loaded table, the derived ones after *)
ColumnOrder ==
    << "ano", "mes", "uf", "idade", "sexo", "grau_instrucao", "salario",
       "tipo_movimentacao", "sexo_desc", "grau_instrucao_desc",
       "tipo_movimentacao_desc", "data", "faixa_etaria", "faixa_salarial" >>

(* df.columns.tolist() restricted to names *)
tolist(names) == SelectSeq(ColumnOrder, LAMBDA c : c \in names)

(* one entry of DataFrame.corr(): Pearson's r over the rows where both   *)
(* columns have a value, kept exact as its sign and its square; NaN when *)
(* one of the two is constant over those rows                            *)
Pearson(d, a, b) ==
    LET R == Present(d.cols[a]) \cap Present(d.cols[b])
        n == IntR(Cardinality(R))
        x(i) == d.cols[a].v[i][1]
        y(i) == d.cols[b].v[i][1]
        prod(u(_), w(_)) ==
            [index |-> <<>>, v |-> [i \in 1..len(d) |->
                IF i \in R THEN Some(RMul(u(i), w(i))) ELSE NA]]
        S(u(_), w(_)) == SumCells(prod(u, w), R)
        one(i) == IntR(1)
        C(u(_), w(_)) == RSub(RMul(n, S(u, w)), RMul(S(u, one), S(w, one)))
        cxy == C(x, y)
        cxx == C(x, x)
        cyy == C(y, y)
    IN  IF cxx.num = 0 \/ cyy.num = 0 THEN NA
        ELSE Some([sign |-> IF cxy.num > 0 THEN 1 ELSE IF cxy.num < 0 THEN -1 ELSE 0,
                   square |-> RDiv(RMul(cxy, cxy), RMul(cxx, cyy))])

(* numeric_df.corr(): a frame indexed by the column names *)
corr(d, names) ==
    [index |-> names,
     cols |-> [b \in Range(names) |->
                  Column("float64", [k \in DOMAIN names |-> Pearson(d, names[k], b)], <<>>)]]

(* "white" if abs(value) > 0.5 else "black" *)
FontColor(c) ==
    IF notnull(c) /\ RLt(Rat(1, 4), c[1].square) THEN "white" ELSE "black"

(* px.imshow of the matrix, the annotations coloured by value *)
HeatmapFigure(corr_matrix, valid_columns) ==
    Figure("imshow", corr_matrix, <<>>,
           <<"Matriz de Correlação">>,
           [x |-> "Variável", y |-> "Variável", color |-> "Correlação"],
           [x |-> [k \in DOMAIN valid_columns |-> Label(valid_columns[k])],
            y |-> [k \in DOMAIN valid_columns |-> Label(valid_columns[k])],
            annotations |->
               [k \in DOMAIN valid_columns |->
                  [j \in DOMAIN valid_columns |->
                     FontColor(corr_matrix.cols[valid_columns[j]].v[k])]]])

(* a heatmap over every numeric column, whatever was selected *)
create_heatmap_all_numeric(d, columns_) ==
    LET numeric == select_dtypes(d, NumericDtypes)
        given == columns_ # None /\ columns_[1] # <<>>
        valid_columns == tolist(numeric)
    IN  IF given /\ valid_columns = <<>>
        THEN Ok(EmptyFigure(<<"Nenhuma coluna numérica válida para mapa de calor">>))
        ELSE IF len(d) = 0 \/ Len(valid_columns) < 2
        THEN Ok(EmptyFigure(<<"Dados insuficientes para mapa de calor">>))
        ELSE Ok(HeatmapFigure(corr(d, valid_columns), valid_columns))

create_heatmap(d, columns_) ==
    LET numeric == select_dtypes(d, NumericDtypes)
        given == columns_ # None /\ columns_[1] # <<>>
        valid_columns ==
            IF given THEN SelectSeq(columns_[1], LAMBDA c : c \in numeric)
            ELSE tolist(numeric)
    IN  IF given /\ valid_columns = <<>>
        THEN Ok(EmptyFigure(<<"Nenhuma coluna numérica válida para mapa de calor">>))
        ELSE IF len(d) = 0 \/ Len(valid_columns) < 2
        THEN Ok(EmptyFigure(<<"Dados insuficientes para mapa de calor">>))
        ELSE Ok(HeatmapFigure(corr(d, valid_columns), valid_columns))

-----------------------------------------------------------------------------
(* DataProcessor.get_summary_statistics *)

(* the present values of a column in ascending order *)
SortedValues(col) ==
    LET P == Present(col)
        val(i) == col.v[i][1]
        Before(j, i) == RLt(val(j), val(i)) \/ (val(j) = val(i) /\ j < i)
        rank(i) == Cardinality({j \in P : Before(j, i)}) + 1
    IN  [k \in 1..Cardinality(P) |-> val(CHOOSE i \in P : rank(i) = k)]

(* the quantile qn/qd of an ascending sequence, interpolated linearly    *)
(* between the two nearest values                                        *)
Interpolate(sorted, qn, qd) ==
    IF sorted = <<>> THEN NA
    ELSE IF ((Len(sorted) - 1) * qn) % qd = 0
    THEN Some(sorted[((Len(sorted) - 1) * qn) \div qd + 1])
    ELSE Some(RAdd(sorted[((Len(sorted) - 1) * qn) \div qd + 1],
                   RMul(Rat(((Len(sorted) - 1) * qn) % qd, qd),
                        RSub(sorted[((Len(sorted) - 1) * qn) \div qd + 2],
                             sorted[((Len(sorted) - 1) * qn) \div qd + 1]))))

quantile(col, qn, qd) == Interpolate(SortedValues(col), qn, qd)

(* Series.std(): the square root of the sample variance, kept exact as   *)
(* the variance; NaN for fewer than two values                           *)
std(col) ==
    LET P == Present(col)
        n == Cardinality(P)
        squares == [col EXCEPT !.v = [i \in DOMAIN col.v |->
                       IF i \in P THEN Some(RMul(col.v[i][1], col.v[i][1])) ELSE NA]]
    IN  IF n < 2 THEN NA
        ELSE Some([variance |->
                 RDivInt(RSub(RMul(IntR(n), SumCells(squares, P)),
                              RMul(SumCells(col, P), SumCells(col, P))),
                         n * (n - 1))])

DescribeIndex == <<"count", "mean", "std", "min", "25%", "50%", "75%", "max">>

(* df[numeric_cols].describe(): a frame without columns cannot be        *)
(* described                                                             *)
describe(d, names) ==
    IF names = {} THEN Raise("ValueError")
    ELSE Ok([index |-> DescribeIndex,
             cols |-> [c \in names |->
                Column("float64",
                       << count(d.cols[c]), mean(d.cols[c]), std(d.cols[c]),
                          min(d.cols[c]), quantile(d.cols[c], 1, 4),
                          quantile(d.cols[c], 2, 4), quantile(d.cols[c], 3, 4),
                          max(d.cols[c]) >>,
                       <<>>)]])

(* the dictionary returned: the description of the numeric columns and,  *)
(* for every categorical column, its value counts (a Series, held as the *)
(* frame of its index and its values)                                    *)
Summary(numeric, d) ==
    IF ~IsOk(numeric) THEN numeric
    ELSE Ok([numeric |-> numeric.df,
             categorical |-> [col \in select_dtypes(d, CategoricalDtypes) |->
                                 value_counts(d, col)]])

get_summary_statistics(d) == Summary(describe(d, select_dtypes(d, NumericDtypes)), d)

-----------------------------------------------------------------------------
(* The tables as objects.  A heap is the sequence of the tables made so  *)
(* far and a reference is a position in it; df.copy(), boolean indexing, *)
(* groupby and describe make a new object, and an assignment to a column *)
(* changes the object assigned to.  A call in progress is the heap, the  *)
(* reference the method holds and the exception raised.                  *)

Running(heap, ref) == [heap |-> heap, ref |-> ref, exc |-> "none"]

(* x = df.copy() *)
Copy(s) == [s EXCEPT !.heap = Append(s.heap, s.heap[s.ref]), !.ref = Len(s.heap) + 1]

(* an object made from the value of an expression *)
New(s, o) ==
    IF IsOk(o) THEN [s EXCEPT !.heap = Append(s.heap, o.df), !.ref = Len(s.heap) + 1]
    ELSE [s EXCEPT !.exc = o.exc]

(* the assignments x[col] = ... of a method, made on the object x *)
AssignColumns(s, o) ==
    IF IsOk(o) THEN [s EXCEPT !.heap[s.ref] = o.df]
    ELSE [s EXCEPT !.exc = o.exc]

(* a method body run on the copy of the table it is given *)
OnCopy(s, f(_)) ==
    IF s.exc # "none" THEN s
    ELSE AssignColumns(Copy(s), f(s.heap[s.ref]))

(* a method body that assigns to the table it is given *)
InPlace(s, f(_)) ==
    IF s.exc # "none" THEN s
    ELSE AssignColumns(s, f(s.heap[s.ref]))

_handle_missing_values_ref(s) == OnCopy(s, _handle_missing_values)

_decode_categorical_ref(s) == OnCopy(s, LAMBDA d : Ok(_decode_categorical(d)))

_create_derived_fields_ref(s) == OnCopy(s, _create_derived_fields)

(* process_data without any copy: every step assigns to the table given *)
process_data_in_place(heap, ref) ==
    InPlace(InPlace(InPlace(Running(heap, ref), _handle_missing_values),
                    LAMBDA d : Ok(_decode_categorical(d))),
            _create_derived_fields)

process_data_ref(heap, ref) ==
    _create_derived_fields_ref(
        _decode_categorical_ref(
            _handle_missing_values_ref(Copy(Running(heap, ref)))))

(* filtered_df = filtered_df[mask]: a new object; an absent column is    *)
(* skipped                                                               *)
RECURSIVE FilterLoop_ref(_, _)
FilterLoop_ref(s, filters) ==
    IF filters = <<>> THEN s
    ELSE FilterLoop_ref(
            IF Head(filters).column \notin columns(s.heap[s.ref]) THEN s
            ELSE New(s, Ok(ApplyFilter(s.heap[s.ref], Head(filters).column,
                                       Head(filters).value))),
            Tail(filters))

(* filter_data without its copy *)
filter_data_no_copy(heap, ref, filters) == FilterLoop_ref(Running(heap, ref), filters)

filter_data_ref(heap, ref, filters) == FilterLoop_ref(Copy(Running(heap, ref)), filters)

(* pd.DataFrame(), or the frame reset_index() makes of the grouped one *)
aggregate_by_period_ref(heap, ref, group_by, metrics) ==
    New(Running(heap, ref), aggregate_by_period(heap[ref], group_by, metrics))

(* the description is a new frame; the dictionary itself is no table *)
get_summary_statistics_ref(heap, ref) ==
    [New(Running(heap, ref), describe(heap[ref], select_dtypes(heap[ref], NumericDtypes)))
        EXCEPT !.ref = 0]

HeapRows ==
    { <<Some(IntR(2020)), Some("SP"), Some(IntR(1000))>>,
      <<Some(IntR(2021)), Some("MG"), Some(IntR(2500))>>,
      <<Some(IntR(2020)), Some("SP"), NA>>,
      <<NA, NA, Some(IntR(1500))>> }

HeapNames == <<"ano", "uf", "salario">>

(* tables over some of the columns; pd.DataFrame() is the one without    *)
(* columns and rows                                                      *)
HeapFrames ==
    UNION {UNION {{[index |-> RangeIndex(n),
                    cols |-> [c \in S |->
                        RawColumn(c, [i \in 1..n |-> rows[i][SeqIndex(HeapNames, c)]])]]
                   : rows \in [1..n -> HeapRows]}
                  : n \in 0..(IF S = {} THEN 0 ELSE MaxHeapRows)}
           : S \in {{"ano", "uf", "salario"}, {"uf"}, {"salario"}, {}}}

HeapFilters ==
    { <<>>,
      << [column |-> "municipio", value |-> FilterValue("scalar", FALSE, <<"3550308">>)] >>,
      << [column |-> "uf", value |-> FilterValue("scalar", FALSE, <<"SP">>)] >>,
      << [column |-> "uf", value |-> FilterValue("list", FALSE, <<"SP", "MG">>)] >>,
      << [column |-> "salario", value |-> FilterValue("tuple", TRUE, <<IntR(1000), IntR(2000)>>)],
         [column |-> "uf", value |-> FilterValue("scalar", FALSE, <<"SP">>)] >> }

Calls ==
    [method : {"process_data", "get_summary_statistics"}]
    \cup [method : {"filter_data"}, filters : HeapFilters]
    \cup [method : {"aggregate_by_period"},
          group_by : {<<"ano">>, <<"uf", "mes">>, <<"mes">>},
          metrics : {<<"salario">>, <<"renda">>}]

(* the caller holds one table, the only object there is *)
InitCalls ==
    /\ df \in HeapFrames
    /\ arg \in Calls
    /\ acc = <<df>>
    /\ op = "none"
    /\ ret = NoCall
    /\ step = 0
    /\ session = Absent
    /\ shown = Blank

(* the call has run: the heap it leaves, the reference it returns and    *)
(* the value returned                                                    *)
Returned(method, s, value) ==
    /\ op = "none"
    /\ arg.method = method
    /\ op' = method
    /\ acc' = s.heap
    /\ step' = IF s.exc = "none" THEN s.ref ELSE 0
    /\ ret' = IF s.exc = "none" THEN value ELSE Raise(s.exc)
    /\ UNCHANGED <<df, arg, session, shown>>

CallProcessData ==
    /\ arg.method = "process_data"
    /\ Returned("process_data", process_data_ref(acc, 1), process_data(acc[1]))

CallFilterData ==
    /\ arg.method = "filter_data"
    /\ Returned("filter_data", filter_data_ref(acc, 1, arg.filters),
                filter_data(acc[1], arg.filters))

CallAggregateByPeriod ==
    /\ arg.method = "aggregate_by_period"
    /\ Returned("aggregate_by_period",
                aggregate_by_period_ref(acc, 1, arg.group_by, arg.metrics),
                aggregate_by_period(acc[1], arg.group_by, arg.metrics))

CallGetSummaryStatistics ==
    /\ arg.method = "get_summary_statistics"
    /\ Returned("get_summary_statistics", get_summary_statistics_ref(acc, 1),
                get_summary_statistics(acc[1]))

NextCalls ==
    \/ CallProcessData \/ CallFilterData \/ CallAggregateByPeriod
    \/ CallGetSummaryStatistics

SpecCalls == InitCalls /\ [][NextCalls]_vars

-----------------------------------------------------------------------------
(* Calls of two users on one DataProcessor, run as threads.  What the    *)
(* users share is the DataProcessor object, whose attributes are the     *)
(* three dictionaries of __init__, and the default lists of              *)
(* aggregate_by_period, which Python makes once for all calls; a table   *)
(* is reached through the reference a user passes.  A thread runs its    *)
(* method one statement at a time and the statements of the two threads  *)
(* interleave in any order.  Here session is the shared object, df the   *)
(* users' tables as they were handed over, acc the heap, arg the call of *)
(* each user, step the position of each thread and ret what each call    *)
(* returned.                                                             *)

Users == 1..2

(* DataProcessor(), with the defaults of aggregate_by_period *)
NewDataProcessor ==
    [sexo_mapping |-> sexo_mapping,
     grau_instrucao_mapping |-> grau_instrucao_mapping,
     tipo_movimentacao_mapping |-> tipo_movimentacao_mapping,
     group_by |-> <<"ano", "mes">>,
     metrics |-> <<"salario">>]

(* a statement leaves the shared object and the thread's objects *)
After(self, s) == [self |-> self, s |-> s]

(* processed_df = df.copy(); filtered_df = df.copy() *)
CopyStatement(self, s) == After(self, Copy(s))

(* processed_df = self._handle_missing_values(processed_df) *)
HandleMissingStatement(self, s) == After(self, _handle_missing_values_ref(s))

(* a decoding that adds every code it meets to the dictionary *)
DecodeSexoStatementLearning(self, s) ==
    LET d == s.heap[s.ref]
        met == IF "sexo" \in columns(d)
               THEN {d.cols["sexo"].v[i][1] : i \in Present(d.cols["sexo"])}
               ELSE {}
        learnt == [k \in DOMAIN self.sexo_mapping \cup met |->
                      IF k \in DOMAIN self.sexo_mapping THEN self.sexo_mapping[k] ELSE k]
    IN  After([self EXCEPT !.sexo_mapping = learnt],
              OnCopy(s, LAMBDA x :
                  Ok(IF "sexo" \in columns(x)
                     THEN SetColumn(x, "sexo_desc", map_str(x.cols["sexo"], learnt))
                     ELSE x)))

(* decoded_df = df.copy(); decoded_df['sexo_desc'] =                     *)
(* decoded_df['sexo'].map(self.sexo_mapping)                             *)
DecodeSexoStatement(self, s) ==
    After(self,
          OnCopy(s, LAMBDA d :
              Ok(IF "sexo" \in columns(d)
                 THEN SetColumn(d, "sexo_desc", map_str(d.cols["sexo"], self.sexo_mapping))
                 ELSE d)))

(* decoded_df['grau_instrucao_desc'] =                                   *)
(* decoded_df['grau_instrucao'].map(self.grau_instrucao_mapping)         *)
DecodeGrauStatement(self, s) ==
    After(self,
          InPlace(s, LAMBDA d :
              Ok(IF "grau_instrucao" \in columns(d)
                 THEN SetColumn(d, "grau_instrucao_desc",
                                map_int(d.cols["grau_instrucao"], self.grau_instrucao_mapping))
                 ELSE d)))

(* decoded_df['tipo_movimentacao_desc'] =                                *)
(* decoded_df['tipo_movimentacao'].map(self.tipo_movimentacao_mapping)   *)
DecodeTipoStatement(self, s) ==
    After(self,
          InPlace(s, LAMBDA d :
              Ok(IF "tipo_movimentacao" \in columns(d)
                 THEN SetColumn(d, "tipo_movimentacao_desc",
                                map_int(d.cols["tipo_movimentacao"],
                                        self.tipo_movimentacao_mapping))
                 ELSE d)))

(* processed_df = self._create_derived_fields(processed_df) *)
DerivedFieldsStatement(self, s) == After(self, _create_derived_fields_ref(s))

(* one pass of the loop of filter_data *)
FilterStatement(self, s, entry) ==
    After(self, FilterLoop_ref(s, <<entry>>))

(* the list a call passes, or the default list when it passes none *)
OrDefault(given, default) == IF given = None THEN default ELSE given[1]

(* the body of aggregate_by_period *)
AggregateStatement(self, s, call) ==
    After(self,
          New(s, aggregate_by_period(s.heap[s.ref],
                                     OrDefault(call.group_by, self.group_by),
                                     OrDefault(call.metrics, self.metrics))))

(* the number of statements of a call *)
Statements(call) ==
    CASE call.method = "process_data" -> 6
      [] call.method = "filter_data" -> 1 + Len(call.filters)
      [] call.method = "aggregate_by_period" -> 1

(* the statement after pc statements of the call have run *)
Statement(self, call, pc, s) ==
    CASE call.method = "process_data" ->
            (CASE pc = 0 -> CopyStatement(self, s)
               [] pc = 1 -> HandleMissingStatement(self, s)
               [] pc = 2 -> DecodeSexoStatement(self, s)
               [] pc = 3 -> DecodeGrauStatement(self, s)
               [] pc = 4 -> DecodeTipoStatement(self, s)
               [] pc = 5 -> DerivedFieldsStatement(self, s))
      [] call.method = "filter_data" ->
            IF pc = 0 THEN CopyStatement(self, s)
            ELSE FilterStatement(self, s, call.filters[pc])
      [] call.method = "aggregate_by_period" -> AggregateStatement(self, s, call)

(* the object a thread works on is kept at a place of its own: the heap  *)
(* is the users' tables followed by the working object of each thread    *)
Working(u) == Cardinality(Users) + u

Kept(heap, u, s) ==
    [k \in DOMAIN heap |->
        IF k = Working(u) /\ s.ref > Len(heap) THEN s.heap[s.ref] ELSE s.heap[k]]

Done(u) == step[u].pc = Statements(arg[u])

ThreadTables ==
    { [index |-> RangeIndex(2),
       cols |-> ("sexo" :> RawColumn("sexo", <<Some("1"), Some("3")>>)
                 @@ "ano" :> RawColumn("ano", <<Some(IntR(2020)), Some(IntR(2020))>>)
                 @@ "salario" :> RawColumn("salario", <<Some(IntR(1000)), NA>>))],
      [index |-> RangeIndex(1),
       cols |-> ("sexo" :> RawColumn("sexo", <<Some("2")>>)
                 @@ "ano" :> RawColumn("ano", <<Some(IntR(2021))>>)
                 @@ "salario" :> RawColumn("salario", <<Some(IntR(2500))>>))],
      Frame1(1, "sexo", <<NA>>) }

ThreadCalls ==
    [method : {"process_data"}, ref : Users]
    \cup [method : {"filter_data"}, ref : Users,
          filters : { << [column |-> "salario",
                          value |-> FilterValue("tuple", TRUE, <<IntR(1000), IntR(2000)>>)] >>,
                      << [column |-> "municipio",
                          value |-> FilterValue("scalar", FALSE, <<"3550308">>)],
                         [column |-> "sexo",
                          value |-> FilterValue("scalar", FALSE, <<"1">>)] >> }]
    \cup [method : {"aggregate_by_period"}, ref : Users,
          group_by : {None, Some(<<"sexo">>)}, metrics : {None}]

InitThreads ==
    /\ df \in [Users -> ThreadTables]
    /\ arg \in [Users -> ThreadCalls]
    /\ acc = [k \in 1..(2 * Cardinality(Users)) |-> IF k \in Users THEN df[k] ELSE EmptyFrame]
    /\ step = [u \in Users |-> [pc |-> 0, ref |-> arg[u].ref, exc |-> "none"]]
    /\ ret = [u \in Users |-> NoCall]
    /\ session = NewDataProcessor
    /\ op = "none"
    /\ shown = Blank

(* the thread of user u runs its next statement; an exception, or the    *)
(* last statement, ends the call                                         *)
RunStatement(u, method) ==
    /\ arg[u].method = method
    /\ ~Done(u)
    /\ LET r == Statement(session, arg[u], step[u].pc, Running(acc, step[u].ref))
           ref == IF r.s.ref > Len(acc) THEN Working(u) ELSE r.s.ref
           pc == IF r.s.exc # "none" THEN Statements(arg[u]) ELSE step[u].pc + 1
       IN  /\ session' = r.self
           /\ acc' = Kept(acc, u, r.s)
           /\ step' = [step EXCEPT ![u] = [pc |-> pc, ref |-> ref, exc |-> r.s.exc]]
           /\ ret' = [ret EXCEPT ![u] =
                         IF pc < Statements(arg[u]) THEN @
                         ELSE IF r.s.exc # "none" THEN Raise(r.s.exc)
                         ELSE Ok(acc'[ref])]
    /\ op' = method
    /\ UNCHANGED <<df, arg, shown>>

ThreadProcessData == \E u \in Users : RunStatement(u, "process_data")

ThreadFilterData == \E u \in Users : RunStatement(u, "filter_data")

ThreadAggregateByPeriod == \E u \in Users : RunStatement(u, "aggregate_by_period")

NextThreads == ThreadProcessData \/ ThreadFilterData \/ ThreadAggregateByPeriod

SpecThreads == InitThreads /\ [][NextThreads]_vars

-----------------------------------------------------------------------------
(* The plotting routines called on their own, with any column arguments: *)
(* columns of the table, the name regiao that is no column, the empty    *)
(* string and None.                                                      *)

PlotRows ==
    { <<Some("SP"), Some("Masculino"), Some(IntR(10)), Some(IntR(20))>>,
      <<Some("SP"), Some("Feminino"), Some(IntR(30)), Some(IntR(30))>>,
      <<Some("RJ"), Some("Masculino"), Some(IntR(5)), Some(IntR(30))>>,
      <<Some("SP"), Some("Masculino"), NA, Some(IntR(41))>> }

PlotNames == <<"uf", "sexo_desc", "salario", "idade">>

PlotFrames ==
    UNION {{[index |-> RangeIndex(n),
             cols |-> [c \in Range(PlotNames) \cup {"data"} |->
                 IF c = "data"
                 THEN Column("datetime64", [i \in 1..n |-> Some([y |-> 2021, m |-> 1, d |-> 1])], <<>>)
                 ELSE Column(IF c \in {"uf", "sexo_desc"} THEN "object"
                             ELSE IF \E i \in 1..n : isnull(rows[i][SeqIndex(PlotNames, c)])
                             THEN "float64" ELSE "int64",
                             [i \in 1..n |-> rows[i][SeqIndex(PlotNames, c)]], <<>>)]]
            : rows \in [1..n -> PlotRows]}
           : n \in 0..MaxPlotRows}

Optional(names) == {None, Some("")} \cup {Some(c) : c \in names}

PlotRequests ==
    [routine : {"create_time_series"}, y_column : {"salario", "regiao"},
     x_column : {"data", "regiao"}, group_by : Optional({"uf", "regiao"})]
    \cup [routine : {"create_bar_chart"}, x_column : {"uf", "regiao"},
          y_column : {None, Some("salario"), Some("uf"), Some("regiao")},
          group_by : {None, Some("sexo_desc"), Some("uf"), Some("regiao")},
          orientation : {"v", "h"},
          sort_by : {None, Some("count"), Some("regiao")}]
    \cup [routine : {"create_pie_chart"}, column : {"uf", "regiao"},
          values : {None, Some("salario"), Some("regiao")}]
    \cup [routine : {"create_histogram"}, column : {"salario", "regiao"},
          bins : {None, Some(5)}, group_by : Optional({"uf", "regiao"})]
    \cup [routine : {"create_boxplot"}, y_column : {"salario", "regiao"},
          x_column : Optional({"uf", "regiao"})]
    \cup [routine : {"create_heatmap"},
          columns : {None, Some(<<>>), Some(<<"salario">>), Some(<<"idade", "salario">>),
                     Some(<<"salario", "uf", "regiao">>), Some(<<"uf">>),
                     Some(<<"salario", "regiao", "idade">>)}]
    \cup [routine : {"create_scatter_plot"}, x_column : {"idade", "regiao"},
          y_column : {"salario", "regiao"},
          color_by : Optional({"uf", "regiao"}), size_by : Optional({"idade", "regiao"})]

InitPlots ==
    /\ df \in PlotFrames
    /\ arg \in PlotRequests
    /\ op = "none"
    /\ ret = NoCall
    /\ acc = NoCall
    /\ step = 0
    /\ session = Absent
    /\ shown = Blank

Called(routine, fig) ==
    /\ op = "none"
    /\ arg.routine = routine
    /\ op' = routine
    /\ ret' = fig
    /\ UNCHANGED <<df, arg, acc, step, session, shown>>

CreateTimeSeries ==
    /\ arg.routine = "create_time_series"
    /\ Called("create_time_series",
              create_time_series(df, arg.y_column, arg.x_column, arg.group_by))

CreateBarChart ==
    /\ arg.routine = "create_bar_chart"
    /\ Called("create_bar_chart",
              create_bar_chart(df, arg.x_column, arg.y_column, arg.group_by,
                               arg.orientation, arg.sort_by))

CreatePieChart ==
    /\ arg.routine = "create_pie_chart"
    /\ Called("create_pie_chart", create_pie_chart(df, arg.column, arg.values))

CreateHistogram ==
    /\ arg.routine = "create_histogram"
    /\ Called("create_histogram", create_histogram(df, arg.column, arg.bins, arg.group_by))

CreateBoxplot ==
    /\ arg.routine = "create_boxplot"
    /\ Called("create_boxplot", create_boxplot(df, arg.y_column, arg.x_column))

CreateHeatmap ==
    /\ arg.routine = "create_heatmap"
    /\ Called("create_heatmap", create_heatmap(df, arg.columns))

CreateScatterPlot ==
    /\ arg.routine = "create_scatter_plot"
    /\ Called("create_scatter_plot",
              create_scatter_plot(df, arg.x_column, arg.y_column, arg.color_by, arg.size_by))

NextPlots ==
    \/ CreateTimeSeries \/ CreateBarChart \/ CreatePieChart \/ CreateHistogram
    \/ CreateBoxplot \/ CreateHeatmap \/ CreateScatterPlot

SpecPlots == InitPlots /\ [][NextPlots]_vars

-----------------------------------------------------------------------------
(* ExploratoryPage._render_visualizations and _render_data_view.  A      *)
(* screen is [messages, calls]: the st.success / st.error / st.warning / *)
(* st.info messages written and the plotting routines called, each       *)
(* figure being passed to streamlit_display.  The values of the widgets  *)
(* are the user's, so a routine yields the set of screens it can leave.  *)

st_message(o, level, text) ==
    [o EXCEPT !.messages = Append(@, Message(level, text, <<>>))]

st_warning(o, text) == st_message(o, "warning", text)

Plot(o, routine, args) ==
    [o EXCEPT !.calls = Append(@, [routine |-> routine, args |-> args])]

(* None if option == nothing else option *)
NoneIf(option, nothing) == IF option = nothing THEN None ELSE Some(option)

available_charts ==
    [chart_type \in {"Série Temporal", "Gráfico de Barras", "Gráfico de Pizza",
                     "Histograma", "Boxplot", "Mapa de Calor", "Gráfico de Dispersão"} |->
        CASE chart_type = "Série Temporal" -> "time_series"
          [] chart_type = "Gráfico de Barras" -> "bar_chart"
          [] chart_type = "Gráfico de Pizza" -> "pie_chart"
          [] chart_type = "Histograma" -> "histogram"
          [] chart_type = "Boxplot" -> "boxplot"
          [] chart_type = "Mapa de Calor" -> "heatmap"
          [] chart_type = "Gráfico de Dispersão" -> "scatter_plot"]

numeric_cols(d) == select_dtypes(d, NumericDtypes)
categorical_cols(d) == select_dtypes(d, CategoricalDtypes)

TimeSeries(d, o) ==
    IF "data" \in columns(d) /\ Cardinality(numeric_cols(d)) > 0
    THEN {Plot(o, "create_time_series",
               [y_column |-> w[1], group_by |-> NoneIf(w[2], "Nenhum")]) :
            w \in numeric_cols(d) \X ({"Nenhum"} \cup categorical_cols(d))}
    ELSE {st_warning(o, "Dados insuficientes para gráfico de série temporal. É necessário uma coluna de data e pelo menos uma coluna numérica.")}

BarChart(d, o) ==
    IF Cardinality(categorical_cols(d)) > 0
    THEN UNION {
           {Plot(o, "create_bar_chart",
                 [x_column |-> x_column,
                  y_column |-> NoneIf(w[1], "Contagem"),
                  group_by |-> NoneIf(w[2], "Nenhum"),
                  orientation |-> IF w[3] = "Vertical" THEN "v" ELSE "h"]) :
              w \in ({"Contagem"} \cup numeric_cols(d))
                    \X ({"Nenhum"} \cup (categorical_cols(d) \ {x_column}))
                    \X {"Vertical", "Horizontal"}}
           : x_column \in categorical_cols(d)}
    ELSE {st_warning(o, "Dados insuficientes para gráfico de barras. É necessário pelo menos uma coluna categórica.")}

PieChart(d, o) ==
    IF Cardinality(categorical_cols(d)) > 0
    THEN {Plot(o, "create_pie_chart",
               [column |-> w[1], values |-> NoneIf(w[2], "Contagem")]) :
            w \in categorical_cols(d) \X ({"Contagem"} \cup numeric_cols(d))}
    ELSE {st_warning(o, "Dados insuficientes para gráfico de pizza. É necessário pelo menos uma coluna categórica.")}

(* values of st.slider("Número de bins", min_value=5, max_value=100, value=30) *)
BinChoices == {5, 30, 100}

Histogram(d, o) ==
    IF Cardinality(numeric_cols(d)) > 0
    THEN {Plot(o, "create_histogram",
               [column |-> w[1], bins |-> w[2], group_by |-> NoneIf(w[3], "Nenhum")]) :
            w \in numeric_cols(d) \X BinChoices \X ({"Nenhum"} \cup categorical_cols(d))}
    ELSE {st_warning(o, "Dados insuficientes para histograma. É necessário pelo menos uma coluna numérica.")}

Boxplot(d, o) ==
    IF Cardinality(numeric_cols(d)) > 0
    THEN {Plot(o, "create_boxplot",
               [y_column |-> w[1], x_column |-> NoneIf(w[2], "Nenhum")]) :
            w \in numeric_cols(d) \X ({"Nenhum"} \cup categorical_cols(d))}
    ELSE {st_warning(o, "Dados insuficientes para boxplot. É necessário pelo menos uma coluna numérica.")}

(* what st.multiselect can return: any of the options, each once, in the *)
(* order they were picked                                                *)
Multiselect(options) ==
    UNION {{q \in [1..n -> options] : \A a, b \in 1..n : a # b => q[a] # q[b]}
           : n \in 0..Cardinality(options)}

HeatmapAtLeastOne(d, o) ==
    IF Cardinality(numeric_cols(d)) >= 1
    THEN {LET read == [o EXCEPT !.selected = selected_columns]
          IN  IF Len(selected_columns) >= 2
              THEN Plot(read, "create_heatmap", [columns |-> selected_columns])
              ELSE st_warning(read, "Selecione pelo menos duas colunas para gerar o mapa de calor.")
            : selected_columns \in Multiselect(numeric_cols(d))}
    ELSE {st_warning(o, "Dados insuficientes para mapa de calor. São necessárias pelo menos duas colunas numéricas.")}

Heatmap(d, o) ==
    IF Cardinality(numeric_cols(d)) >= 2
    THEN {LET read == [o EXCEPT !.selected = selected_columns]
          IN  IF Len(selected_columns) >= 2
              THEN Plot(read, "create_heatmap", [columns |-> selected_columns])
              ELSE st_warning(read, "Selecione pelo menos duas colunas para gerar o mapa de calor.")
            : selected_columns \in Multiselect(numeric_cols(d))}
    ELSE {st_warning(o, "Dados insuficientes para mapa de calor. São necessárias pelo menos duas colunas numéricas.")}

ScatterPlot(d, o) ==
    IF Cardinality(numeric_cols(d)) >= 2
    THEN UNION {
           {Plot(o, "create_scatter_plot",
                 [x_column |-> x_column,
                  y_column |-> w[1],
                  color_by |-> NoneIf(w[2], "Nenhum"),
                  size_by |-> NoneIf(w[3], "Nenhum")]) :
              w \in (numeric_cols(d) \ {x_column})
                    \X ({"Nenhum"} \cup columns(d))
                    \X ({"Nenhum"} \cup numeric_cols(d))}
           : x_column \in numeric_cols(d)}
    ELSE {st_warning(o, "Dados insuficientes para gráfico de dispersão. São necessárias pelo menos duas colunas numéricas.")}

(* an exception that leaves render ends the run; Streamlit shows it *)
Uncaught(o, exc) == [o EXCEPT !.messages = Append(@, Message("exception", exc, <<>>))]

(* fig = self.plot_generator.create_*(df, ...) for a recorded call *)
CallRoutine(d, call) ==
    LET a == call.args
    IN  CASE call.routine = "create_time_series" ->
                create_time_series(d, a.y_column, "data", a.group_by)
          [] call.routine = "create_bar_chart" ->
                create_bar_chart(d, a.x_column, a.y_column, a.group_by, a.orientation, None)
          [] call.routine = "create_pie_chart" -> create_pie_chart(d, a.column, a.values)
          [] call.routine = "create_histogram" ->
                create_histogram(d, a.column, Some(a.bins), a.group_by)
          [] call.routine = "create_boxplot" -> create_boxplot(d, a.y_column, a.x_column)
          [] call.routine = "create_heatmap" -> create_heatmap(d, Some(a.columns))
          [] call.routine = "create_scatter_plot" ->
                create_scatter_plot(d, a.x_column, a.y_column, a.color_by, a.size_by)

(* the screen after the figures were made: an exception raised by a    *)
(* routine ends the run                                                  *)
ShowFigures(o, figs) ==
    IF \E k \in DOMAIN figs : ~IsOk(figs[k])
    THEN Uncaught(o, figs[CHOOSE k \in DOMAIN figs : ~IsOk(figs[k])].exc)
    ELSE [o EXCEPT !.figures = [k \in DOMAIN figs |-> figs[k].df]]

(* the figures of the calls made, each shown by streamlit_display(fig) *)
streamlit_display(d, o) ==
    ShowFigures(o, [k \in DOMAIN o.calls |-> CallRoutine(d, o.calls[k])])

_render_visualizations(d, chart_type, o) ==
    IF empty(d) THEN {o}
    ELSE LET chart_method == available_charts[chart_type]
             screens ==
                 CASE chart_method = "time_series" -> TimeSeries(d, o)
                   [] chart_method = "bar_chart" -> BarChart(d, o)
                   [] chart_method = "pie_chart" -> PieChart(d, o)
                   [] chart_method = "histogram" -> Histogram(d, o)
                   [] chart_method = "boxplot" -> Boxplot(d, o)
                   [] chart_method = "heatmap" -> Heatmap(d, o)
                   [] chart_method = "scatter_plot" -> ScatterPlot(d, o)
         IN  {streamlit_display(d, screen) : screen \in screens}

_render_data_view(d, o) ==
    IF ~empty(d)
    THEN IF numeric_cols(d) # {} THEN o
         ELSE st_message(o, "info", "Não há colunas numéricas para calcular estatísticas descritivas.")
    ELSE st_message(o, "error", "Não há dados para exibir.")

-----------------------------------------------------------------------------
(* ExploratoryPage.render: one run of the page per user interaction *)

(* the part of render that shows the stored table *)
ShowStored(s, chart_type, o) ==
    IF s # Absent /\ ~empty(s[1])
    THEN _render_visualizations(s[1], chart_type, _render_data_view(s[1], o))
    ELSE IF s # Absent /\ empty(s[1])
    THEN {st_warning(o, "Os filtros aplicados não retornaram dados. Tente carregar com filtros diferentes.")}
    ELSE {st_message(o, "info", "Configure os filtros e clique em 'Carregar Dados' para iniciar a análise.")}

(* tables the warehouse returns: one record over some of the columns     *)
(* ano, mes, uf, salario and data; a record whose sexo is missing; a     *)
(* table without rows; and the empty table load_caged_data returns when  *)
(* the query fails                                                       *)
WarehouseColumns ==
    { {"uf"}, {"ano"}, {"data"}, {"ano", "mes"}, {"ano", "data"}, {"uf", "data"},
      {"uf", "salario"}, {"ano", "mes", "salario"} }

PageColumn(name) ==
    IF name = "data"
    THEN Column("datetime64", <<Some([y |-> 2021, m |-> 1, d |-> 1])>>, <<>>)
    ELSE RawColumn(name, <<Some(SampleValue(name))>>)

WarehouseTables ==
    {[index |-> RangeIndex(1), cols |-> [c \in S |-> PageColumn(c)]]
        : S \in WarehouseColumns}
    \cup {Frame1(1, "sexo", <<NA>>), Frame1(0, "uf", <<>>)}

LoadResults == WarehouseTables \cup {EmptyFrame}

InitPage ==
    /\ df = EmptyFrame
    /\ op = "none"
    /\ arg = <<>>
    /\ ret = NoCall
    /\ acc = NoCall
    /\ step = 0
    /\ session = Absent
    /\ shown = Blank

(* whether the session held a table when the run began *)
HadData(s) == IF s # Absent THEN 1 ELSE 0

(* a failed load that leaves the stored table where it is *)
keep_caged_data(s) == s

(* if 'caged_data' in st.session_state: del st.session_state['caged_data'] *)
del_caged_data(s) == Absent

(* a run in which 'Carregar Dados' was clicked *)
LoadData ==
    \E t \in LoadResults, chart_type \in DOMAIN available_charts :
        /\ op' = "render"
        /\ arg' = [click |-> "load_data", chart_type |-> chart_type]
        /\ df' = t
        /\ IF ~empty(t)
           THEN /\ ret' = process_data(t)
                /\ IF IsOk(ret')
                   THEN /\ session' = Some(ret'.df)
                        /\ shown' \in ShowStored(session', chart_type,
                               [Blank EXCEPT !.messages = Append(@,
                                   Message("success",
                                           "Dados carregados com sucesso! {} registros encontrados.",
                                           <<len(ret'.df)>>))])
                   ELSE /\ session' = session
                        /\ shown' = Uncaught(Blank, ret'.exc)
           ELSE /\ ret' = NoCall
                /\ session' = del_caged_data(session)
                /\ shown' \in ShowStored(session', chart_type,
                       st_message(Blank, "error", "Não foi possível carregar os dados. Verifique os filtros e tente novamente."))
        /\ step' = HadData(session)
        /\ UNCHANGED acc

(* a run in which 'Limpar Dados e Filtros' was clicked: the entry is     *)
(* deleted and st.rerun() starts the run over, no button clicked         *)
ClearData ==
    \E chart_type \in DOMAIN available_charts :
        /\ op' = "render"
        /\ arg' = [click |-> "clear_data", chart_type |-> chart_type]
        /\ session' = del_caged_data(session)
        /\ shown' \in ShowStored(session', chart_type, Blank)
        /\ step' = HadData(session)
        /\ UNCHANGED <<df, ret, acc>>

(* a run started by any other widget *)
Rerun ==
    \E chart_type \in DOMAIN available_charts :
        /\ op' = "render"
        /\ arg' = [click |-> "none", chart_type |-> chart_type]
        /\ shown' \in ShowStored(session, chart_type, Blank)
        /\ step' = HadData(session)
        /\ UNCHANGED <<df, ret, acc, session>>

NextPage == LoadData \/ ClearData \/ Rerun

SpecPage == InitPage /\ [][NextPage]_vars

-----------------------------------------------------------------------------
(* Properties of process_data *)

Processed == op = "process_data" /\ IsOk(ret)

HasValue(col) == Present(col) # {}
NoMissing(col) == isnull_sum(col) = 0

(* the columns the imputation step treats *)
Imputable(d) == select_dtypes(d, NumericDtypes \cup CategoricalDtypes)

C2_EveryColumnNullFree ==
    Processed =>
        \A c \in columns(ret.df) : HasValue(ret.df.cols[c]) => NoMissing(ret.df.cols[c])

KnownCode(c, keys) == notnull(c) /\ c[1].den = 1 /\ c[1].num \in keys

(* a derived column is missing exactly where its source value is no key *)
(* of the lookup table or lies in no bracket                            *)
DerivedMissingAt(d, i) ==
    /\ "sexo" \in columns(d) =>
          (isnull(d.cols["sexo_desc"].v[i]) <=> d.cols["sexo"].v[i] \notin {Some("1"), Some("2")})
    /\ "grau_instrucao" \in columns(d) =>
          (isnull(d.cols["grau_instrucao_desc"].v[i])
              <=> ~KnownCode(d.cols["grau_instrucao"].v[i], 1..9))
    /\ "tipo_movimentacao" \in columns(d) =>
          (isnull(d.cols["tipo_movimentacao_desc"].v[i])
              <=> ~KnownCode(d.cols["tipo_movimentacao"].v[i], 1..3))
    /\ "idade" \in columns(d) =>
          (isnull(d.cols["faixa_etaria"].v[i])
              <=> \/ isnull(d.cols["idade"].v[i])
                  \/ RLt(d.cols["idade"].v[i][1], IntR(0))
                  \/ RLe(IntR(100), d.cols["idade"].v[i][1]))
    /\ "salario" \in columns(d) =>
          (isnull(d.cols["faixa_salarial"].v[i])
              <=> \/ isnull(d.cols["salario"].v[i])
                  \/ RLt(d.cols["salario"].v[i][1], IntR(0)))
    /\ "data" \in columns(d) => notnull(d.cols["data"].v[i])

(* C2 amended: in the result every numeric or categorical input column   *)
(* that has a value has no missing value; a derived column is missing    *)
(* exactly at the records whose source value is not a key of the lookup  *)
(* table (the _desc columns) or lies in no bracket (faixa_etaria,        *)
(* faixa_salarial), and data is never missing                            *)
C2_InputNullFreeDerivedMissingWhereUndefined ==
    Processed =>
        /\ \A c \in Imputable(df) \ DerivedNames :
              HasValue(ret.df.cols[c]) => NoMissing(ret.df.cols[c])
        /\ \A i \in 1..len(ret.df) : DerivedMissingAt(ret.df, i)

(* a derived column of the result has a value for one record and none   *)
(* for another                                                          *)
C2_Witness ==
    /\ Processed
    /\ \E c \in columns(ret.df) \cap DerivedNames :
          HasValue(ret.df.cols[c]) /\ ~NoMissing(ret.df.cols[c])

(* C3: process_data(process_data(t)) equals process_data(t): the second *)
(* pass returns the table the first pass returned                       *)
C3_Idempotent == (op = "process_data" /\ acc # NoCall) => ret = acc

ExpectedAgeLabel(a) ==
    IF RLt(a, IntR(18)) THEN "<18"
    ELSE IF RLt(a, IntR(25)) THEN "18-24"
    ELSE IF RLt(a, IntR(35)) THEN "25-34"
    ELSE IF RLt(a, IntR(45)) THEN "35-44"
    ELSE IF RLt(a, IntR(55)) THEN "45-54"
    ELSE IF RLt(a, IntR(65)) THEN "55-64"
    ELSE "65+"

(* C4: every age a with 0 <= a < 100 gets the label of the half-open    *)
(* interval [0,18), [18,25), [25,35), [35,45), [45,55), [55,65),         *)
(* [65,100) that holds it; 18, 25, 35, 45, 55, 65 fall in the upper one  *)
C4_AgeBracketPartition ==
    (Processed /\ "idade" \in columns(ret.df)) =>
        \A i \in 1..len(ret.df) :
            LET c == ret.df.cols["idade"].v[i]
            IN  (notnull(c) /\ RLe(IntR(0), c[1]) /\ RLt(c[1], IntR(100))) =>
                    ret.df.cols["faixa_etaria"].v[i] = Some(ExpectedAgeLabel(c[1]))

(* the boundary age 18 was given the upper bracket *)
C4_Witness ==
    /\ Processed
    /\ "idade" \in columns(ret.df)
    /\ \E i \in 1..len(ret.df) :
          /\ ret.df.cols["idade"].v[i] = Some(IntR(18))
          /\ ret.df.cols["faixa_etaria"].v[i] = Some("18-24")

ExpectedSalaryLabel(x) ==
    IF RLt(x, IntR(1100)) THEN "Até 1 SM"
    ELSE IF RLt(x, IntR(2200)) THEN "1-2 SM"
    ELSE IF RLt(x, IntR(3300)) THEN "2-3 SM"
    ELSE IF RLt(x, IntR(5000)) THEN "3-5 SM"
    ELSE IF RLt(x, IntR(10000)) THEN "5-10 SM"
    ELSE "10+ SM"

(* C5: every salary s >= 0 gets the label of the half-open interval     *)
(* bounded by 1100, 2200, 3300, 5000, 10000 that holds it; a boundary    *)
(* falls in the upper bracket and s >= 10000 is '10+ SM'                 *)
C5_SalaryBracketPartition ==
    (Processed /\ "salario" \in columns(ret.df)) =>
        \A i \in 1..len(ret.df) :
            LET c == ret.df.cols["salario"].v[i]
            IN  (notnull(c) /\ RLe(IntR(0), c[1])) =>
                    ret.df.cols["faixa_salarial"].v[i] = Some(ExpectedSalaryLabel(c[1]))

(* a salary far above the last threshold was given the top bracket *)
C5_Witness ==
    /\ Processed
    /\ "salario" \in columns(ret.df)
    /\ \E i \in 1..len(ret.df) :
          /\ ret.df.cols["salario"].v[i] = Some(IntR(1000000))
          /\ ret.df.cols["faixa_salarial"].v[i] = Some("10+ SM")


-----------------------------------------------------------------------------
(* Properties of filter_data *)

Labels(d) == Range(d.index)

(* the labels of the rows of df that one predicate alone keeps *)
KeptAlone(e) == Labels(filter_data(df, <<e>>).df)

KeptByAll == {i \in 1..len(df) : \A k \in DOMAIN arg : df.index[i] \in KeptAlone(arg[k])}

Reordered(p) == [k \in DOMAIN arg |-> arg[p[k]]]

(* C6: filter_data with several predicates returns exactly the rows that *)
(* every predicate keeps (logical AND); applying the predicates one call *)
(* after another gives the same table, and so does any order of the      *)
(* entries of the mapping                                                *)
C6_FilterComposition ==
    op = "filter_data" =>
        /\ IsOk(ret)
        /\ ret.df = Take(df, KeptByAll)
        /\ step = Len(arg) => acc = ret
        /\ \A p \in Permutations(DOMAIN arg) : filter_data(df, Reordered(p)) = ret

(* two predicates on columns of the table were applied, at once and one  *)
(* by one; a row that the first keeps is dropped by the second and       *)
(* another row passes both                                               *)
C6_Witness ==
    /\ op = "filter_data"
    /\ Len(arg) = 2
    /\ step = 2
    /\ arg[1].column \in columns(df)
    /\ arg[2].column \in columns(df)
    /\ len(ret.df) >= 1
    /\ \E i \in 1..len(df) : df.index[i] \in KeptAlone(arg[1]) \ Labels(ret.df)

OnePredicate == op = "filter_data" /\ Len(arg) = 1 /\ arg[1].column \in columns(df)

Between(lo, x, hi) == RLe(lo, x) /\ RLe(x, hi)

(* C7 as stated: a two-element numeric pair is a closed range, a list of *)
(* several elements is set membership, and any other value (a scalar, a  *)
(* list of one element) keeps the rows whose value equals it             *)
ClaimedKeeps(c, value) ==
    IF IsNumericPair(value)
    THEN notnull(c) /\ Between(value.items[1], c[1], value.items[2])
    ELSE IF value.shape = "list" /\ Len(value.items) >= 2
    THEN notnull(c) /\ \E k \in DOMAIN value.items : c[1] = value.items[k]
    ELSE value.shape = "scalar" /\ c = Some(value.items[1])

C7_ShapeFromValue ==
    OnePredicate =>
        ret.df = Take(df, {i \in 1..len(df) :
                             ClaimedKeeps(df.cols[arg[1].column].v[i], arg[1].value)})

(* C7 amended: a two-element numeric pair [lo, hi] keeps exactly the     *)
(* rows with lo <= v <= hi; any other list, of whatever length (one      *)
(* element and none included), keeps exactly the rows whose value is a   *)
(* member of it; a value that is no list keeps exactly the rows whose    *)
(* value equals it                                                       *)
AmendedKeeps(c, value) ==
    IF IsNumericPair(value)
    THEN notnull(c) /\ Between(value.items[1], c[1], value.items[2])
    ELSE IF value.shape = "list"
    THEN notnull(c) /\ \E k \in DOMAIN value.items : c[1] = value.items[k]
    ELSE c = Some(value.items[1])

C7_ShapeFromValueAnyList ==
    OnePredicate =>
        ret.df = Take(df, {i \in 1..len(df) :
                             AmendedKeeps(df.cols[arg[1].column].v[i], arg[1].value)})

(* a range predicate kept a row whose value is the upper end and dropped *)
(* another row                                                           *)
C7_Witness ==
    /\ OnePredicate
    /\ IsNumericPair(arg[1].value)
    /\ len(ret.df) < len(df)
    /\ \E i \in 1..len(ret.df) :
          ret.df.cols[arg[1].column].v[i] = Some(arg[1].value.items[2])

-----------------------------------------------------------------------------
(* Properties of aggregate_by_period *)

Aggregated == op = "aggregate_by_period"

(* the requested names that are columns of the table, in the order given *)
KnownGroupBy == SelectSeq(arg.group_by, LAMBDA c : c \in columns(df))
KnownMetrics == SelectSeq(arg.metrics, LAMBDA c : c \in columns(df))

(* the combinations of grouping values that occur in the table *)
Occurring ==
    {[j \in DOMAIN KnownGroupBy |-> df.cols[KnownGroupBy[j]].v[i]] :
        i \in {i \in 1..len(df) :
                 \A j \in DOMAIN KnownGroupBy : notnull(df.cols[KnownGroupBy[j]].v[i])}}

(* the rows of the table that carry one combination and a value of m *)
Members(key, m) ==
    {i \in 1..len(df) :
        /\ \A j \in DOMAIN KnownGroupBy : df.cols[KnownGroupBy[j]].v[i] = key[j]
        /\ notnull(df.cols[m].v[i])}

RECURSIVE Total(_, _)
Total(m, I) ==
    IF I = {} THEN IntR(0)
    ELSE LET i == CHOOSE i \in I : TRUE
         IN  RAdd(df.cols[m].v[i][1], Total(m, I \ {i}))

(* the rows of I listed by ascending value of m *)
Ascending(m, I) ==
    CHOOSE f \in [1..Cardinality(I) -> I] :
        /\ \A a, b \in DOMAIN f : a # b => f[a] # f[b]
        /\ \A a \in DOMAIN f : a + 1 \in DOMAIN f =>
               RLe(df.cols[m].v[f[a]][1], df.cols[m].v[f[a + 1]][1])

ExpectedStat(key, m, stat) ==
    LET I == Members(key, m)
        n == Cardinality(I)
        f == Ascending(m, I)
        w(k) == df.cols[m].v[f[k]][1]
    IN  CASE stat = "count" -> Some(IntR(n))
          [] stat # "count" /\ n = 0 -> NA
          [] stat = "mean" /\ n > 0 -> Some(RDivInt(Total(m, I), n))
          [] stat = "median" /\ n > 0 ->
                IF n % 2 = 1 THEN Some(w((n + 1) \div 2))
                ELSE Some(RDivInt(RAdd(w(n \div 2), w(n \div 2 + 1)), 2))
          [] stat = "min" /\ n > 0 -> Some(w(1))
          [] stat = "max" /\ n > 0 -> Some(w(n))

(* the row of the result that carries one combination *)
ResultRows(key) ==
    {r \in 1..len(ret.df) :
        \A j \in DOMAIN KnownGroupBy : ret.df.cols[KnownGroupBy[j]].v[r] = key[j]}

(* the table {(2021, 1000), (2021, 3000), (2022, 500)} of (ano, salario) *)
IsExampleTable ==
    /\ len(df) = 3
    /\ {<<df.cols["ano"].v[i], df.cols["salario"].v[i]>> : i \in 1..3} =
           { <<Some(IntR(2021)), Some(IntR(1000))>>,
             <<Some(IntR(2021)), Some(IntR(3000))>>,
             <<Some(IntR(2022)), Some(IntR(500))>> }

ExampleRow(r, ano, mean_, median_, min_, max_, count_) ==
    /\ ret.df.cols["ano"].v[r] = Some(IntR(ano))
    /\ ret.df.cols["salario_mean"].v[r] = Some(IntR(mean_))
    /\ ret.df.cols["salario_median"].v[r] = Some(IntR(median_))
    /\ ret.df.cols["salario_min"].v[r] = Some(IntR(min_))
    /\ ret.df.cols["salario_max"].v[r] = Some(IntR(max_))
    /\ ret.df.cols["salario_count"].v[r] = Some(IntR(count_))

C9_UnknownColumnsDropped ==
    Aggregated =>
        /\ IsOk(ret)
        /\ (KnownGroupBy = <<>> \/ KnownMetrics = <<>>) =>
               (empty(ret.df) /\ columns(ret.df) = {})
        /\ (KnownGroupBy # <<>> /\ KnownMetrics # <<>>) =>
               /\ ret = Ok(GroupbyAgg(df, KnownGroupBy, KnownMetrics))
               /\ columns(ret.df) \cap (Range(arg.group_by) \cup Range(arg.metrics))
                      = Range(KnownGroupBy)

C9_Witness ==
    /\ Aggregated
    /\ arg.group_by = <<"ano", "mes">>
    /\ arg.metrics = <<"salario", "renda">>
    /\ len(df) = MaxAggRows
    /\ IsOk(ret)
    /\ columns(ret.df) = {"ano", "salario_mean", "salario_median", "salario_min",
                          "salario_max", "salario_count"}
    /\ len(ret.df) = 2

-----------------------------------------------------------------------------
(* Properties of the chart dispatcher *)

(* the run reached the dispatcher with the stored table *)
Dispatched ==
    /\ op = "render"
    /\ session # Absent
    /\ ~(arg.click = "load_data" /\ ~IsOk(ret))

ChartKind == available_charts[arg.chart_type]

HowMany(dtypes) ==
    Cardinality({c \in columns(session[1]) : session[1].cols[c].dtype \in dtypes})

(* the table meets the minimum of the chart kind *)
MeetsMinimum ==
    CASE ChartKind = "time_series" ->
            "data" \in columns(session[1]) /\ HowMany({"int64", "float64"}) >= 1
      [] ChartKind \in {"bar_chart", "pie_chart"} -> HowMany({"object", "category"}) >= 1
      [] ChartKind \in {"histogram", "boxplot"} -> HowMany({"int64", "float64"}) >= 1
      [] ChartKind \in {"heatmap", "scatter_plot"} -> HowMany({"int64", "float64"}) >= 2

(* the insufficient-data message of each kind, which names what it needs *)
InsufficientData ==
    CASE ChartKind = "time_series" -> "Dados insuficientes para gráfico de série temporal. É necessário uma coluna de data e pelo menos uma coluna numérica."
      [] ChartKind = "bar_chart" -> "Dados insuficientes para gráfico de barras. É necessário pelo menos uma coluna categórica."
      [] ChartKind = "pie_chart" -> "Dados insuficientes para gráfico de pizza. É necessário pelo menos uma coluna categórica."
      [] ChartKind = "histogram" -> "Dados insuficientes para histograma. É necessário pelo menos uma coluna numérica."
      [] ChartKind = "boxplot" -> "Dados insuficientes para boxplot. É necessário pelo menos uma coluna numérica."
      [] ChartKind = "heatmap" -> "Dados insuficientes para mapa de calor. São necessárias pelo menos duas colunas numéricas."
      [] ChartKind = "scatter_plot" -> "Dados insuficientes para gráfico de dispersão. São necessárias pelo menos duas colunas numéricas."

Warnings == SelectSeq(shown.messages, LAMBDA m : m.level = "warning")

(* C10: for each of the seven chart kinds, when the table handed to the  *)
(* dispatcher does not meet the kind's minimum (time_series: a 'data'    *)
(* column and a numeric column; bar_chart, pie_chart: a categorical      *)
(* column; histogram, boxplot: a numeric column; heatmap, scatter_plot:  *)
(* two numeric columns), the run shows that kind's insufficient-data     *)
(* warning, which names the requirement, and calls no plotting routine.  *)
C10_InsufficientDataWarned ==
    (Dispatched /\ ~MeetsMinimum) =>
        /\ Warnings = <<Message("warning", InsufficientData, <<>>)>>
        /\ shown.calls = <<>>

C10_Witness ==
    /\ Dispatched
    /\ ChartKind = "heatmap"
    /\ HowMany({"int64", "float64"}) = 1
    /\ Warnings # <<>>
    /\ shown.calls = <<>>

-----------------------------------------------------------------------------
(* Properties of the heatmap *)

HeatmapRequested == Dispatched /\ ChartKind = "heatmap"

(* the run asked for no correlation matrix and showed none *)
NoMatrix == shown.calls = <<>> /\ shown.figures = <<>>

(* C11: a heatmap requested on a table with fewer than two numeric       *)
(* columns, or with fewer than two columns selected, is answered by a    *)
(* warning that two columns are needed and no correlation matrix is      *)
(* computed; with two or more numeric columns selected the figure shown  *)
(* is the correlation matrix whose rows and columns are exactly the      *)
(* selected columns, in the order selected.                              *)
C11_HeatmapMinimums ==
    HeatmapRequested =>
        /\ HowMany({"int64", "float64"}) < 2 =>
               /\ NoMatrix
               /\ Warnings = <<Message("warning", "Dados insuficientes para mapa de calor. São necessárias pelo menos duas colunas numéricas.", <<>>)>>
        /\ (HowMany({"int64", "float64"}) >= 2 /\ Len(shown.selected) < 2) =>
               /\ NoMatrix
               /\ Warnings = <<Message("warning", "Selecione pelo menos duas colunas para gerar o mapa de calor.", <<>>)>>
        /\ (HowMany({"int64", "float64"}) >= 2 /\ Len(shown.selected) >= 2) =>
               /\ Warnings = <<>>
               /\ Len(shown.figures) = 1
               /\ shown.figures[1].kind = "imshow"
               /\ shown.figures[1].data.index = shown.selected
               /\ columns(shown.figures[1].data) = Range(shown.selected)
               /\ \A c \in Range(shown.selected) :
                      session[1].cols[c].dtype \in {"int64", "float64"}

(* exactly two numeric columns were selected and their matrix was shown *)
C11_Witness ==
    /\ HeatmapRequested
    /\ Len(shown.selected) = 2
    /\ Len(shown.figures) = 1
    /\ shown.figures[1].kind = "imshow"
    /\ shown.figures[1].data.index = shown.selected


-----------------------------------------------------------------------------
(* Properties of the plotting routines called on their own.              *)

Routines ==
    {"create_time_series", "create_bar_chart", "create_pie_chart", "create_histogram",
     "create_boxplot", "create_heatmap", "create_scatter_plot"}

PlotCalled == op \in Routines

(* the column arguments a routine cannot plot without *)
RequiredColumns ==
    CASE arg.routine \in {"create_time_series", "create_scatter_plot"} ->
            {arg.x_column, arg.y_column}
      [] arg.routine = "create_bar_chart" ->
            {arg.x_column} \cup (IF arg.y_column = None THEN {} ELSE {arg.y_column[1]})
      [] arg.routine = "create_pie_chart" ->
            {arg.column} \cup (IF arg.values = None THEN {} ELSE {arg.values[1]})
      [] arg.routine = "create_histogram" -> {arg.column}
      [] arg.routine = "create_boxplot" -> {arg.y_column}
      [] OTHER -> {}

(* the optional column arguments, each with the role it would be bound to *)
OptionalColumns ==
    CASE arg.routine \in {"create_time_series", "create_bar_chart", "create_histogram"} ->
            {<<"color", arg.group_by>>}
      [] arg.routine = "create_boxplot" -> {<<"x", arg.x_column>>}
      [] arg.routine = "create_scatter_plot" ->
            {<<"color", arg.color_by>>, <<"size", arg.size_by>>}
      [] OTHER -> {}

IsAbsent(c) == c = None \/ c[1] \notin columns(df)

Placeholder == IsOk(ret) /\ ret.df.kind = "empty" /\ ret.df.bind = <<>>

(* every column the plotting call names is a column of the frame it plots *)
BindsExisting(fig) ==
    /\ \A role \in DOMAIN fig.bind : fig.bind[role] \in columns(fig.data)
    /\ fig.kind = "imshow" =>
          /\ Range(fig.data.index) = columns(fig.data)
          /\ columns(fig.data) \subseteq columns(df)

(* C12: whatever the table and the column arguments, a create_* routine  *)
(* binds only columns of the frame it plots; when a required column is   *)
(* not in the table it returns the placeholder figure and plots nothing; *)
(* an optional column (group_by, color_by, size_by, the x of a boxplot)  *)
(* that is not in the table is bound to no role, and a sort_by that is   *)
(* no column of the chart data leaves the chart as it is without sort_by *)
C12_OnlyExistingColumns ==
    PlotCalled =>
        /\ (\E c \in RequiredColumns : c \notin columns(df)) => Placeholder
        /\ IsOk(ret) => BindsExisting(ret.df)
        /\ (IsOk(ret) /\ ret.df.kind # "empty") =>
              \A o \in OptionalColumns : IsAbsent(o[2]) => o[1] \notin DOMAIN ret.df.bind
        /\ (/\ op = "create_bar_chart" /\ IsOk(ret) /\ ret.df.kind = "bar"
            /\ arg.sort_by # None /\ arg.sort_by[1] \notin columns(ret.df.data)) =>
              ret = create_bar_chart(df, arg.x_column, arg.y_column, arg.group_by,
                                     arg.orientation, None)

C12_Witness ==
    /\ op = "create_scatter_plot"
    /\ len(df) = 2
    /\ arg.color_by = Some("regiao")
    /\ arg.size_by = Some("idade")
    /\ IsOk(ret)
    /\ ret.df.kind = "scatter"
    /\ DOMAIN ret.df.bind = {"x", "y", "size"}

(* the bar chart drawn, and the columns of its bars *)
BarDrawn == op = "create_bar_chart" /\ IsOk(ret) /\ ret.df.kind = "bar"

BarMetric == IF arg.y_column = None THEN "count" ELSE arg.y_column[1]

BarBy ==
    IF "color" \in DOMAIN ret.df.bind THEN <<arg.x_column, ret.df.bind["color"]>>
    ELSE <<arg.x_column>>

(* the height of the bar of one bucket: px.bar stacks the chart rows     *)
(* that share the bucket, a row without a value adding nothing           *)
BarHeight(chart, by, key, metric) ==
    LET col == GroupColumn(chart, by, key, metric)
    IN  IF Present(col) = {} THEN NA ELSE Some(SumCells(col, Present(col)))

(* C13: in a bar chart every X-bucket (every pair of X-bucket and group  *)
(* when a grouping column is given) has a bar whose Y value is the       *)
(* number of rows of the bucket when no metric column is given, and the  *)
(* mean of the metric column over the rows of the bucket otherwise       *)
C13_BarValues ==
    (BarDrawn /\ (arg.y_column # None => df.cols[BarMetric].dtype \in NumericDtypes)) =>
        /\ Range(GroupKeys(ret.df.data, BarBy)) = Range(GroupKeys(df, BarBy))
        /\ \A k \in DOMAIN GroupKeys(df, BarBy) :
              BarHeight(ret.df.data, BarBy, GroupKeys(df, BarBy)[k], BarMetric)
                = IF arg.y_column = None
                  THEN Some(IntR(Cardinality(GroupRows(df, BarBy, GroupKeys(df, BarBy)[k]))))
                  ELSE mean(GroupColumn(df, BarBy, GroupKeys(df, BarBy)[k], BarMetric))

(* the same, for the requests that give no metric or give a grouping *)
C13_BarValuesGrouped ==
    (BarDrawn /\ (arg.y_column = None \/ "color" \in DOMAIN ret.df.bind)) => C13_BarValues

C13_GroupedWitness ==
    /\ BarDrawn
    /\ arg.y_column = Some("salario")
    /\ "color" \in DOMAIN ret.df.bind
    /\ \E k \in DOMAIN GroupKeys(df, BarBy) :
          Cardinality(GroupRows(df, BarBy, GroupKeys(df, BarBy)[k])) = 2

AllMissing(col) == Len(col.v) > 0 /\ Present(col) = {}

(* C15: a column of the input table whose values are all missing is left *)
(* as it is by process_data, and process_data raises nothing, be the     *)
(* column numeric or categorical                                         *)
C15_AllMissingLeftAsIs ==
    (op = "process_data" /\ \E c \in Imputable(df) : AllMissing(df.cols[c])) =>
        /\ IsOk(ret)
        /\ \A c \in Imputable(df) \ DerivedNames :
              AllMissing(df.cols[c]) => ret.df.cols[c] = df.cols[c]

(* the numeric half of C15 *)
C15_AllMissingNumericLeftAsIs ==
    (/\ op = "process_data"
     /\ \A c \in select_dtypes(df, CategoricalDtypes) : ~AllMissing(df.cols[c])) =>
        /\ IsOk(ret) \/ ret.exc = "ValueError"
        /\ IsOk(ret) =>
              \A c \in select_dtypes(df, NumericDtypes) \ DerivedNames :
                  AllMissing(df.cols[c]) => ret.df.cols[c] = df.cols[c]

C15_NumericWitness ==
    /\ Processed
    /\ \E c \in select_dtypes(df, NumericDtypes) :
          AllMissing(df.cols[c]) /\ ret.df.cols[c] = df.cols[c]

GrauLabels ==
    << "Analfabeto", "Até 5ª Incompleto", "5ª Completo Fundamental",
       "6ª a 9ª Fundamental", "Fundamental Completo", "Médio Incompleto",
       "Médio Completo", "Superior Incompleto", "Superior Completo" >>

TipoLabels == << "Admissão", "Desligamento", "Transferência" >>

CodedNames == {"sexo", "grau_instrucao", "tipo_movimentacao"}

(* the label column holds the label of every record whose code is the   *)
(* k-th code                                                             *)
Decoded(d, coded, desc, code(_), labels) ==
    coded \in columns(d) =>
        \A i \in 1..len(d) : \A k \in DOMAIN labels :
            d.cols[coded].v[i] = Some(code(k)) => d.cols[desc].v[i] = Some(labels[k])

(* C16: in the result of process_data, sexo_desc is 'Masculino' where    *)
(* sexo is "1" and 'Feminino' where it is "2", grau_instrucao_desc is    *)
(* the label of the codes 1..9 and tipo_movimentacao_desc the label of   *)
(* the codes 1..3; the coded columns sexo, grau_instrucao and            *)
(* tipo_movimentacao are those the decoding step was given               *)
C16_CategoricalDecoding ==
    Processed =>
        /\ Decoded(ret.df, "sexo", "sexo_desc",
                   LAMBDA k : IF k = 1 THEN "1" ELSE "2", <<"Masculino", "Feminino">>)
        /\ Decoded(ret.df, "grau_instrucao", "grau_instrucao_desc",
                   LAMBDA k : IntR(k), GrauLabels)
        /\ Decoded(ret.df, "tipo_movimentacao", "tipo_movimentacao_desc",
                   LAMBDA k : IntR(k), TipoLabels)
        /\ \A c \in CodedNames \cap columns(df) :
              ret.df.cols[c] = _handle_missing_values(df).df.cols[c]

C16_Witness ==
    /\ Processed
    /\ "grau_instrucao" \in columns(df)
    /\ df.cols["grau_instrucao"].v = <<Some(IntR(9))>>
    /\ ret.df.cols["grau_instrucao"].v = <<Some(IntR(9))>>
    /\ ret.df.cols["grau_instrucao_desc"].v = <<Some("Superior Completo")>>

FirstPass == op = "process_data" /\ acc = NoCall

HasAnoMes == {"ano", "mes"} \subseteq columns(df)

(* the first day of the month of record i of the table *)
FirstDay(d, i) ==
    Some([y |-> d.cols["ano"].v[i][1].num, m |-> d.cols["mes"].v[i][1].num, d |-> 1])

(* C18: the result of process_data has the column data exactly when the  *)
(* input has both ano and mes, and then the data of every record is the  *)
(* first day of the record's ano and mes, also for the records whose ano *)
(* or mes was missing and was imputed                                    *)
C18_DataFirstDayOfMonth ==
    FirstPass =>
        /\ HasAnoMes =>
              /\ IsOk(ret)
              /\ "data" \in columns(ret.df)
              /\ \A i \in 1..len(ret.df) : ret.df.cols["data"].v[i] = FirstDay(ret.df, i)
        /\ (~HasAnoMes /\ IsOk(ret)) => "data" \notin columns(ret.df)

(* the same for the tables in which no ano and no mes is missing *)
C18_DataFirstDayWhenComplete ==
    (HasAnoMes /\ NoMissing(df.cols["ano"]) /\ NoMissing(df.cols["mes"])) =>
        C18_DataFirstDayOfMonth

C18_CompleteWitness ==
    /\ FirstPass
    /\ HasAnoMes
    /\ len(df) = 2
    /\ IsOk(ret)
    /\ ret.df.cols["data"].v[2] = Some([y |-> 2021, m |-> 12, d |-> 1])

(* the derived columns whose source columns are all in the table *)
Derivable(d) ==
    {c \in DerivedNames :
        CASE c = "sexo_desc" -> "sexo" \in columns(d)
          [] c = "grau_instrucao_desc" -> "grau_instrucao" \in columns(d)
          [] c = "tipo_movimentacao_desc" -> "tipo_movimentacao" \in columns(d)
          [] c = "data" -> {"ano", "mes"} \subseteq columns(d)
          [] c = "faixa_etaria" -> "idade" \in columns(d)
          [] c = "faixa_salarial" -> "salario" \in columns(d)}

(* C17: whatever source columns the table lacks, process_data returns    *)
(* without an error and the columns it adds are exactly the derived      *)
(* columns whose source columns are all in the table                     *)
C17_MissingColumnsDegrade ==
    FirstPass =>
        /\ IsOk(ret)
        /\ columns(ret.df) = columns(df) \cup Derivable(df)

(* the same for the calls that return *)
C17_DerivableAddedWhenReturns ==
    (FirstPass /\ IsOk(ret)) => columns(ret.df) = columns(df) \cup Derivable(df)

(* process_data raises only on a categorical column that is all missing  *)
(* and on a missing ano or mes                                           *)
C17_RaisesOnlyOnMissingValues ==
    (FirstPass /\ ~IsOk(ret)) =>
        \/ ret.exc = "KeyError"
             /\ \E c \in select_dtypes(df, CategoricalDtypes) : AllMissing(df.cols[c])
        \/ ret.exc = "ValueError" /\ HasAnoMes
             /\ (~NoMissing(df.cols["ano"]) \/ ~NoMissing(df.cols["mes"]))

C17_SkippedWitness ==
    /\ FirstPass
    /\ IsOk(ret)
    /\ columns(df) = {"ano", "idade", "sexo"}
    /\ columns(ret.df) = {"ano", "idade", "sexo", "sexo_desc", "faixa_etaria"}

(* the filter half of C17: a predicate on a column the table lacks is    *)
(* ignored                                                               *)
C17_AbsentFilterIgnored ==
    op = "filter_data" =>
        ret = filter_data(df, SelectSeq(arg, LAMBDA e : e.column \in columns(df)))

C17_AbsentFilterWitness ==
    /\ op = "filter_data"
    /\ Len(arg) = 2
    /\ \E k \in DOMAIN arg : arg[k].column \notin columns(df)
    /\ len(ret.df) = 1
    /\ len(df) = 2

-----------------------------------------------------------------------------
(* Properties of the DataProcessor methods called on a table object.     *)

Methods == {"process_data", "filter_data", "aggregate_by_period", "get_summary_statistics"}

MethodCalled == op \in Methods

(* the caller's table is the first object of the heap *)
InputObject == acc[1]

(* C14: after a call of process_data, filter_data, aggregate_by_period   *)
(* or get_summary_statistics, returned or raised, the table passed in    *)
(* has the columns and the values it had before; process_data and        *)
(* filter_data return an object other than the one passed in, also when  *)
(* they change no column and drop no row                                 *)
C14_InputNotModified ==
    MethodCalled =>
        /\ InputObject = df
        /\ (op \in {"process_data", "filter_data"} /\ IsOk(ret)) =>
              /\ step \in 2..Len(acc)
              /\ acc[step] = ret.df

(* a filter on an absent column keeps every row, and the table returned  *)
(* is a second object equal to the first                                 *)
C14_Witness ==
    /\ op = "filter_data"
    /\ Len(arg.filters) = 1
    /\ arg.filters[1].column = "municipio"
    /\ len(df) = 2
    /\ step = 2
    /\ acc = <<df, df>>
    /\ ret = Ok(df)

(* a table was changed by process_data, in the object returned only *)
C14_ProcessWitness ==
    /\ op = "process_data"
    /\ IsOk(ret)
    /\ len(df) = 2
    /\ ret.df # df
    /\ InputObject = df
    /\ step = Len(acc)
    /\ acc[step] = ret.df

(* C20: process_data, filter_data, aggregate_by_period and               *)
(* get_summary_statistics called on a table without rows raise nothing   *)
(* and return a table without rows, or a summary that counts nothing     *)
C20_EmptyInput ==
    (MethodCalled /\ len(df) = 0) =>
        /\ IsOk(ret)
        /\ IF op = "get_summary_statistics"
           THEN /\ \A c \in columns(ret.df.numeric) :
                      ret.df.numeric.cols[c].v[1] = Some(IntR(0))
                /\ \A c \in DOMAIN ret.df.categorical : len(ret.df.categorical[c]) = 0
           ELSE len(ret.df) = 0

(* the same for the three methods that return a table *)
C20_EmptyInputTables ==
    op # "get_summary_statistics" => C20_EmptyInput

(* the same for the summary of a table that has a numeric column *)
C20_EmptyInputNumeric ==
    select_dtypes(df, NumericDtypes) # {} => C20_EmptyInput

C20_TablesWitness ==
    /\ op = "process_data"
    /\ len(df) = 0
    /\ columns(df) = {"ano", "uf", "salario"}
    /\ IsOk(ret)
    /\ len(ret.df) = 0
    /\ "faixa_salarial" \in columns(ret.df)

-----------------------------------------------------------------------------
(* Properties of the load button.                                        *)

(* a run in which 'Carregar Dados' was clicked and load_caged_data       *)
(* returned the empty table of a failed query                            *)
FailedLoad == op = "render" /\ arg.click = "load_data" /\ df = EmptyFrame

Levels(o) == {o.messages[k].level : k \in DOMAIN o.messages}

(* C19: a run in which 'Carregar Dados' was clicked and the retrieval    *)
(* failed shows the error message and leaves no caged_data in the        *)
(* session, whatever loads, failed loads and clears came before; it      *)
(* shows no chart, no success message and nothing of an earlier table,   *)
(* and neither does any later run until a load succeeds                  *)
C19_FailedLoadClearsSession ==
    /\ FailedLoad =>
          /\ session = Absent
          /\ \E k \in DOMAIN shown.messages :
                /\ shown.messages[k].level = "error"
                /\ shown.messages[k].text =
                      "Não foi possível carregar os dados. Verifique os filtros e tente novamente."
          /\ "success" \notin Levels(shown)
    /\ (op = "render" /\ session = Absent) =>
          /\ shown.calls = <<>>
          /\ shown.figures = <<>>

(* the load failed in a session that held the table of an earlier load *)
C19_Witness ==
    /\ FailedLoad
    /\ step = 1
    /\ session = Absent
    /\ shown.figures = <<>>
    /\ "error" \in Levels(shown)

-----------------------------------------------------------------------------
(* Properties of the imputation step.                                    *)

Occurrences(col, x) == Cardinality({i \in Present(col) : col.v[i] = Some(x)})

(* the present values no other value occurs more often than *)
MostFrequent(col) ==
    {x \in {col.v[i][1] : i \in Present(col)} :
        \A i \in Present(col) : Occurrences(col, col.v[i][1]) <= Occurrences(col, x)}

FirstRow(col, x) == CHOOSE i \in Present(col) : col.v[i] = Some(x) /\ \A j \in 1..(i - 1) : col.v[j] # Some(x)

(* the most frequent value that occurs first in row order *)
FirstMostFrequent(col) ==
    CHOOSE x \in MostFrequent(col) :
        \A y \in MostFrequent(col) : FirstRow(col, x) <= FirstRow(col, y)

(* the most frequent value that is least in the order of the values *)
LeastMostFrequent(col) ==
    CHOOSE x \in MostFrequent(col) :
        \A y \in MostFrequent(col) : CatKey(col, x) <= CatKey(col, y)

PartlyMissing(col) == HasValue(col) /\ ~NoMissing(col)

(* C22: in every categorical column that has a missing and a present     *)
(* value, process_data puts the most frequent present value in place of  *)
(* every missing entry, and of several equally frequent values the one   *)
(* that comes first in row order                                         *)
C22_ModeFirstEncountered ==
    Processed =>
        \A c \in select_dtypes(df, CategoricalDtypes) \ DerivedNames :
            PartlyMissing(df.cols[c]) =>
                \A i \in 1..len(df) :
                    isnull(df.cols[c].v[i]) =>
                        ret.df.cols[c].v[i] = Some(FirstMostFrequent(df.cols[c]))

(* what the code does: of several equally frequent values the least one *)
C22_ModeLeast ==
    Processed =>
        \A c \in select_dtypes(df, CategoricalDtypes) \ DerivedNames :
            PartlyMissing(df.cols[c]) =>
                \A i \in 1..len(df) :
                    isnull(df.cols[c].v[i]) =>
                        ret.df.cols[c].v[i] = Some(LeastMostFrequent(df.cols[c]))

C22_TieWitness ==
    /\ Processed
    /\ "uf" \in columns(df)
    /\ df.cols["uf"].v = <<Some("SP"), Some("RJ"), NA>>
    /\ ret.df.cols["uf"].v = <<Some("SP"), Some("RJ"), Some("RJ")>>

(* the k-th smallest present value of a column *)
KthSmallest(col, k) ==
    LET vals == {col.v[i][1] : i \in Present(col)}
    IN  CHOOSE x \in vals :
            /\ Cardinality({i \in Present(col) : RLt(col.v[i][1], x)}) < k
            /\ Cardinality({i \in Present(col) : RLe(col.v[i][1], x)}) >= k

(* the middle of the sorted present values, the average of the two       *)
(* middles for an even count                                             *)
ExpectedMedian(col) ==
    LET n == Cardinality(Present(col))
    IN  IF n % 2 = 1 THEN KthSmallest(col, (n + 1) \div 2)
        ELSE RDivInt(RAdd(KthSmallest(col, n \div 2), KthSmallest(col, n \div 2 + 1)), 2)

-----------------------------------------------------------------------------
(* Properties of the order of the steps of process_data.                 *)

InAgeRange(x) == RLe(IntR(0), x) /\ RLt(x, IntR(100))

(* C24: the derived fields are made from the imputed table: a record     *)
(* whose idade is missing in the input gets the faixa_etaria of the      *)
(* median put in its place, and a record whose salario is missing gets   *)
(* the faixa_salarial of the median put in its place                     *)
C24_BracketsSeeImputedValues ==
    Processed =>
        /\ ("idade" \in columns(df) /\ PartlyMissing(df.cols["idade"])
              /\ InAgeRange(ExpectedMedian(df.cols["idade"]))) =>
              \A i \in 1..len(df) :
                  isnull(df.cols["idade"].v[i]) =>
                      ret.df.cols["faixa_etaria"].v[i]
                          = Some(ExpectedAgeLabel(ExpectedMedian(df.cols["idade"])))
        /\ ("salario" \in columns(df) /\ PartlyMissing(df.cols["salario"])
              /\ RLe(IntR(0), ExpectedMedian(df.cols["salario"]))) =>
              \A i \in 1..len(df) :
                  isnull(df.cols["salario"].v[i]) =>
                      ret.df.cols["faixa_salarial"].v[i]
                          = Some(ExpectedSalaryLabel(ExpectedMedian(df.cols["salario"])))

(* the median 58.5 of 17 and 100 is in a bracket neither of them is in *)
C24_Witness ==
    /\ Processed
    /\ "idade" \in columns(df)
    /\ df.cols["idade"].v = <<Some(IntR(17)), Some(IntR(100)), NA>>
    /\ ret.df.cols["idade"].v[3] = Some(Rat(117, 2))
    /\ ret.df.cols["faixa_etaria"].v = <<Some("<18"), NA, Some("55-64")>>

-----------------------------------------------------------------------------
(* The frame of process_data.                                            *)

(* C27: the table process_data returns has the rows of the input in the  *)
(* same order, keeps every column of the input with every value that is  *)
(* not missing, and adds no column other than sexo_desc,                 *)
(* grau_instrucao_desc, tipo_movimentacao_desc, data, faixa_etaria and   *)
(* faixa_salarial                                                        *)
C27_ProcessDataFrame ==
    Processed =>
        /\ ret.df.index = df.index
        /\ columns(df) \subseteq columns(ret.df)
        /\ \A c \in columns(df) :
              /\ Len(ret.df.cols[c].v) = len(df)
              /\ \A i \in 1..len(df) :
                    notnull(df.cols[c].v[i]) => ret.df.cols[c].v[i] = df.cols[c].v[i]
        /\ columns(ret.df) \ columns(df) \subseteq DerivedNames

(* three records, one of them imputed next to two that are kept *)
C27_Witness ==
    /\ Processed
    /\ columns(df) = {"salario"}
    /\ df.cols["salario"].v = <<Some(IntR(1100)), NA, Some(IntR(1099))>>
    /\ ret.df.index = <<0, 1, 2>>
    /\ ret.df.cols["salario"].v = <<Some(IntR(1100)), Some(Rat(2199, 2)), Some(IntR(1099))>>
    /\ columns(ret.df) = {"salario", "faixa_salarial"}

-----------------------------------------------------------------------------
(* Values outside every bracket.                                         *)

OutOfAgeRange(c) == notnull(c) /\ ~InAgeRange(c[1])

NegativeSalary(c) == notnull(c) /\ RLt(c[1], IntR(0))

(* C28: process_data called on a loaded table raises nothing because of  *)
(* an age below 0 or at or above 100 or a salary below 0, and the        *)
(* faixa_etaria or faixa_salarial of such a record is missing in the     *)
(* result, not the first or the last bracket                             *)
C28_OutOfRangeLeftMissing ==
    FirstPass =>
        /\ ("idade" \in columns(df)
              /\ \E i \in 1..len(df) : OutOfAgeRange(df.cols["idade"].v[i])) =>
              /\ IsOk(ret)
              /\ \A i \in 1..len(df) :
                    OutOfAgeRange(ret.df.cols["idade"].v[i]) =>
                        isnull(ret.df.cols["faixa_etaria"].v[i])
        /\ ("salario" \in columns(df)
              /\ \E i \in 1..len(df) : NegativeSalary(df.cols["salario"].v[i])) =>
              /\ IsOk(ret)
              /\ \A i \in 1..len(df) :
                    NegativeSalary(ret.df.cols["salario"].v[i]) =>
                        isnull(ret.df.cols["faixa_salarial"].v[i])

(* the age 100 next to an age in a bracket *)
C28_Witness ==
    /\ FirstPass
    /\ IsOk(ret)
    /\ columns(df) = {"idade"}
    /\ df.cols["idade"].v = <<Some(IntR(100)), Some(IntR(18))>>
    /\ ret.df.cols["faixa_etaria"].v = <<NA, Some("18-24")>>

(* a salary below 0 *)
C28_SalaryWitness ==
    /\ FirstPass
    /\ IsOk(ret)
    /\ columns(df) = {"salario"}
    /\ df.cols["salario"].v = <<Some(IntR(-1))>>
    /\ ret.df.cols["faixa_salarial"].v = <<NA>>

-----------------------------------------------------------------------------
(* Codes that are no key of a lookup table.                              *)

(* a present value that is no key of the lookup table of its column *)
UnknownCode(name, c) ==
    /\ notnull(c)
    /\ CASE name = "sexo" -> c[1] \notin {"1", "2"}
         [] name = "grau_instrucao" -> ~KnownCode(c, 1..9)
         [] name = "tipo_movimentacao" -> ~KnownCode(c, 1..3)

DescOf(name) ==
    CASE name = "sexo" -> "sexo_desc"
      [] name = "grau_instrucao" -> "grau_instrucao_desc"
      [] name = "tipo_movimentacao" -> "tipo_movimentacao_desc"

(* the column of the input holds a value that is no key, or the median   *)
(* imputed for its missing entries is none                               *)
GetsUnknownCode(name) ==
    \/ \E i \in 1..len(df) : UnknownCode(name, df.cols[name].v[i])
    \/ /\ name # "sexo"
       /\ PartlyMissing(df.cols[name])
       /\ UnknownCode(name, Some(ExpectedMedian(df.cols[name])))

(* C29: when a coded column of a loaded table holds a value that is no   *)
(* key of its lookup table, or gets one by imputation (the median 4.5 of *)
(* the codes 4 and 5), process_data raises nothing and the _desc column  *)
(* of that record is missing in the result: no later step fills it in    *)
C29_UnknownCodesLeftMissing ==
    FirstPass =>
        \A name \in CodedNames \cap columns(df) :
            GetsUnknownCode(name) =>
                /\ IsOk(ret)
                /\ \A i \in 1..len(df) :
                      UnknownCode(name, ret.df.cols[name].v[i]) =>
                          isnull(ret.df.cols[DescOf(name)].v[i])

(* the median 4.5 was imputed for a missing grau_instrucao *)
C29_Witness ==
    /\ FirstPass
    /\ IsOk(ret)
    /\ columns(df) = {"grau_instrucao"}
    /\ df.cols["grau_instrucao"].v = <<Some(IntR(4)), NA, Some(IntR(5))>>
    /\ ret.df.cols["grau_instrucao"].v[2] = Some(Rat(9, 2))
    /\ ret.df.cols["grau_instrucao_desc"].v =
          <<Some("6ª a 9ª Fundamental"), NA, Some("Fundamental Completo")>>

(* a sexo that is no key next to one that is *)
C29_SexoWitness ==
    /\ FirstPass
    /\ IsOk(ret)
    /\ columns(df) = {"sexo"}
    /\ df.cols["sexo"].v = <<Some("3"), Some("1")>>
    /\ ret.df.cols["sexo_desc"].v = <<NA, Some("Masculino")>>

-----------------------------------------------------------------------------
(* Lists of two numbers handed to filter_data.                           *)

(* a list or a tuple of exactly two numbers, told from the value alone *)
TwoNumbers(value) ==
    value.shape \in {"list", "tuple"} /\ value.numeric /\ Len(value.items) = 2

(* the values of the filtered column, and the row labels kept *)
Filtered30 == df.cols[arg[1].column].v

KeptLabels == Range(ret.df.index)

(* C30: a list or tuple of exactly two numbers [v0, v1] is applied as    *)
(* the inclusive range, not as membership: a row is kept exactly when    *)
(* v0 <= v <= v1, so rows that equal neither end are kept and a pair     *)
(* with v0 > v1 keeps no row; any other list, a one-element list         *)
(* included, keeps exactly the rows whose value is one of its items      *)
C30_TwoNumbersAreRange ==
    OnePredicate =>
        /\ IsOk(ret)
        /\ TwoNumbers(arg[1].value) =>
              /\ \A i \in 1..len(df) :
                    df.index[i] \in KeptLabels <=>
                        /\ notnull(Filtered30[i])
                        /\ RLe(arg[1].value.items[1], Filtered30[i][1])
                        /\ RLe(Filtered30[i][1], arg[1].value.items[2])
              /\ RLt(arg[1].value.items[2], arg[1].value.items[1]) => len(ret.df) = 0
        /\ (arg[1].value.shape = "list" /\ ~TwoNumbers(arg[1].value)) =>
              \A i \in 1..len(df) :
                  df.index[i] \in KeptLabels <=>
                      /\ notnull(Filtered30[i])
                      /\ Filtered30[i][1] \in Range(arg[1].value.items)

(* the list [1000, 2500] kept a row whose salario, 1500, is neither *)
C30_Witness ==
    /\ OnePredicate
    /\ arg[1].value = FilterValue("list", TRUE, <<IntR(1000), IntR(2500)>>)
    /\ \E i \in 1..len(ret.df) : ret.df.cols["salario"].v[i] = Some(IntR(1500))

(* the list [2500, 1000] dropped rows whose salario is 1500 and 2500 *)
C30_ReversedWitness ==
    /\ OnePredicate
    /\ arg[1].value = FilterValue("list", TRUE, <<IntR(2500), IntR(1000)>>)
    /\ Filtered30 = <<Some(IntR(1500)), Some(IntR(2500))>>
    /\ len(ret.df) = 0

(* the one-element list [1500] kept the rows whose salario is 1500 *)
C30_SingletonWitness ==
    /\ OnePredicate
    /\ arg[1].value = FilterValue("list", TRUE, <<IntR(1500)>>)
    /\ len(ret.df) = 1
    /\ len(df) = 2

-----------------------------------------------------------------------------
(* Properties of the correlation matrix of create_heatmap.               *)

(* create_heatmap drew the matrix of two selected numeric columns of a   *)
(* table with at least one row                                           *)
TwoSelected ==
    /\ op = "create_heatmap"
    /\ len(df) >= 1
    /\ arg.columns # None
    /\ Len(arg.columns[1]) = 2
    /\ Range(arg.columns[1]) \subseteq numeric_cols(df)
    /\ IsOk(ret)
    /\ ret.df.kind = "imshow"

(* the entry of the matrix at the row of a and the column of b *)
Entry(a, b) == ret.df.data.cols[b].v[SeqIndex(ret.df.data.index, a)]

(* the correlation 1 *)
UnitCorrelation == Some([sign |-> 1, square |-> IntR(1)])

(* every value of the column that has one is the same *)
ConstantColumn(col) ==
    \A i, j \in Present(col) : col.v[i] = col.v[j]

Symmetric ==
    \A a, b \in Range(ret.df.data.index) : Entry(a, b) = Entry(b, a)

(* C25: the correlation matrix create_heatmap computes for two selected  *)
(* numeric columns of a table with at least one row is symmetric and has *)
(* 1 in every diagonal entry, also when a selected column is constant    *)
C25_SymmetricUnitDiagonal ==
    TwoSelected =>
        /\ Symmetric
        /\ \A a \in Range(ret.df.data.index) : Entry(a, a) = UnitCorrelation

(* what the code does: the matrix is symmetric, the diagonal entry of a  *)
(* column that takes two values is 1, and that of a constant column is   *)
(* missing                                                               *)
C25_DiagonalMissingWhenConstant ==
    TwoSelected =>
        /\ Symmetric
        /\ \A a \in Range(ret.df.data.index) :
              Entry(a, a) = IF ConstantColumn(df.cols[a]) THEN NA ELSE UnitCorrelation

(* idade is 30 in both records and salario is not constant *)
C25_ConstantWitness ==
    /\ TwoSelected
    /\ df.cols["idade"].v = <<Some(IntR(30)), Some(IntR(30))>>
    /\ df.cols["salario"].v = <<Some(IntR(30)), Some(IntR(5))>>
    /\ Entry("idade", "idade") = NA
    /\ Entry("salario", "salario") = UnitCorrelation

-----------------------------------------------------------------------------
(* Properties of the table kept in the session.                          *)

(* df is the table load_caged_data returned at the most recent click on  *)
(* 'Carregar Dados'; the run showed the warning of an empty stored table *)
EmptyStoredWarned ==
    \E k \in DOMAIN shown.messages :
        shown.messages[k].text =
            "Os filtros aplicados não retornaram dados. Tente carregar com filtros diferentes."

(* C26: after any loads, failed loads and clears, caged_data, when it is *)
(* in the session, is a table with rows and is process_data of the table *)
(* the most recent load returned, and no run shows the warning of an     *)
(* empty stored table                                                    *)
C26_SessionIsLastLoad ==
    /\ session # Absent =>
          /\ ~empty(session[1])
          /\ ~empty(df)
          /\ IsOk(process_data(df))
          /\ session[1] = process_data(df).df
    /\ ~EmptyStoredWarned

(* what the code keeps: the stored table has rows and no run shows the   *)
(* warning; the stored table is process_data of the table the most       *)
(* recent load returned unless process_data raised on it                 *)
C26_StoredNeverEmpty ==
    /\ session # Absent =>
          /\ ~empty(session[1])
          /\ ~empty(df)
          /\ IsOk(process_data(df)) => session[1] = process_data(df).df
    /\ ~EmptyStoredWarned

(* process_data raised on the table just loaded and the session still    *)
(* holds the table of the load before                                    *)
C26_StaleWitness ==
    /\ op = "render"
    /\ arg.click = "load_data"
    /\ ~empty(df)
    /\ ~IsOk(ret)
    /\ session # Absent
    /\ "uf" \in columns(session[1])

-----------------------------------------------------------------------------
(* Properties of calls that run at the same time.                        *)

(* what the call of user u returns when nothing else runs *)
Alone(u) ==
    LET call == arg[u]
        d == df[call.ref]
    IN  CASE call.method = "process_data" -> process_data(d)
          [] call.method = "filter_data" -> filter_data(d, call.filters)
          [] call.method = "aggregate_by_period" ->
                aggregate_by_period(d, OrDefault(call.group_by, <<"ano", "mes">>),
                                    OrDefault(call.metrics, <<"salario">>))

(* C21: however the statements of two users' calls of process_data,      *)
(* filter_data and aggregate_by_period on one DataProcessor interleave,  *)
(* a call that has ended returned what it returns when run alone, and    *)
(* the lookup tables, the default lists and the users' tables are as     *)
(* they were before the calls                                            *)
C21_ConcurrentCallsIndependent ==
    /\ session = NewDataProcessor
    /\ \A u \in Users : acc[u] = df[u]
    /\ \A u \in Users : Done(u) => ret[u] = Alone(u)

(* user 1's process_data of a table with an unknown sexo code has ended  *)
(* while user 2's process_data of the same table is between its          *)
(* statements                                                            *)
C21_Witness ==
    /\ arg[1].method = "process_data"
    /\ arg[2] = arg[1]
    /\ Done(1)
    /\ step[2].pc = 3
    /\ IsOk(ret[1])
    /\ ret[1].df.cols["sexo_desc"].v = <<Some("Masculino"), NA>>
    /\ ret[2] = NoCall

(* both calls have ended, one of them by raising *)
C21_BothEndedWitness ==
    /\ Done(1) /\ Done(2)
    /\ arg[1].method = "filter_data"
    /\ arg[2].method = "process_data"
    /\ len(ret[1].df) = 1
    /\ ret[2] = Raise("KeyError")

=============================================================================
